---- MODULE Spec2Model ----
(***************************************************************************)
(* A model of the prompt-optimisation substrate of bendover                *)
(* (src/src/promptopt): the evaluator client (evaluator_client.py), the     *)
(* evaluation cache (cache.py) and the attribution router                   *)
(* (run_gepa.py, class BundleProgram).                                      *)
(*                                                                         *)
(* The specifications share the variables:                                 *)
(*   SpecEval     one call of evaluate_bundle, stepped through its poll    *)
(*                loop; SpecEvalLive adds fairness of the call's steps;    *)
(*   Spec         a BundleProgram with its cache, driven by forward calls; *)
(*   SpecStore    bundle_store.py: deriving, hashing and writing bundles;  *)
(*   SpecCache    cache.py: get and set on the cache directory;            *)
(*   SpecRoot     the .bendover directory: ensure_active_bundle, clean;    *)
(*   SpecRebuild  the seed bundle rebuilt after the root sources changed;  *)
(*   SpecAlias    the names a practice is addressed by.                    *)
(***************************************************************************)
EXTENDS Integers, Sequences, FiniteSets, TLC

VARIABLES
    \* ---- evaluate_bundle (evaluator_client.py) ----
    pc,               \* position in evaluate_bundle
    site,             \* which call of run_eval_once is active: 1 (l.128), 2 (l.132), 3 (l.145)
    launches,         \* number of subprocess.Popen calls made by this call
    proc,             \* the child process: "none", "running", "exited", "reaped"
    exitcode,         \* exit code of the child once it has exited
    returncode,       \* the local variable returncode
    artifact,         \* content of out_dir/evaluator.json (Absent when there is no file)
    written_by,       \* the launch whose process last wrote (or removed) evaluator.json;
                      \* 0 when the file is as it was before the call
    timeout_seconds,  \* the argument timeout_seconds
    elapsed,          \* now - started of the running attempt
    next_heartbeat,   \* next_heartbeat - started of the running attempt
    heartbeats,       \* eval-running status lines printed by the running attempt
    history,          \* terminal state of every finished attempt, with the artifact seen then
    outcome,          \* how evaluate_bundle ended: a return (with its line) or a raise
    \* ---- BundleProgram and EvaluationCache (run_gepa.py, cache.py) ----
    instructions,     \* predictor.signature.instructions of each practice's predictor
    fixed_updates,    \* BundleProgram._fixed_updates
    mutable_files,    \* BundleProgram._mutable_files
    cache,            \* EvaluationCache: the stored entries, keyed by <<run_id, bundle_hash>>
    eval_calls,       \* number of evaluate_bundle calls made for each <<run_id, bundle_hash>>
    bundles,          \* the bundle directories under bundles/, by bundle id
    scratch,          \* replay task directories made by prepare_task_dir and still on disk
    active,           \* content of active.json
    verdict,          \* how evaluate_bundle ends for the replay of each run
    rounds,           \* number of forward calls the search has made
    phase,            \* where _run_optimization is: "constructed", "search", "done",
                      \* "aborted" (preflight diagnostic) or "crashed" (exception)
    last,             \* what the last call saw and returned
    \* ---- the rest of the .bendover directory ----
    tree              \* root practices/ and agents/, promptopt/logs and promptopt/cache

evars == <<pc, site, launches, proc, exitcode, returncode, artifact, written_by,
           timeout_seconds,
           elapsed, next_heartbeat, heartbeats, history, outcome>>
pvars == <<instructions, fixed_updates, mutable_files, cache, eval_calls, bundles, scratch,
           active, verdict, rounds, phase, last>>
wvars == <<tree>>
vars == <<evars, pvars, wvars>>

(***************************************************************************)
(* Bounds of the model.                                                    *)
(***************************************************************************)
MaxTimeout == 20
MaxSleep == 10
MaxRounds == 2

HEARTBEAT_SECONDS == 15

\* the most run ids a train split may list (run_gepa.py l.861)
MAX_SPLIT_RUN_IDS == 10

(***************************************************************************)
(* The directories around the bundles: the root sources the seed bundle is *)
(* built from (.bendover/practices, .bendover/agents) and, under           *)
(* .bendover/promptopt, logs/ and cache/.                                  *)
(***************************************************************************)
RequiredAgents == {"lead.md", "engineer.md", "tools.md"}

Tree(practices_dir, practices_md, agents_dir, agents, logs_dir, logs, cache_files, evals_dir) ==
    [practices_dir |-> practices_dir,  \* .bendover/practices is a directory
     practices_md |-> practices_md,    \* the *.md files in it
     agents_dir |-> agents_dir,        \* .bendover/agents is a directory
     agents |-> agents,                \* the files in it
     logs_dir |-> logs_dir,            \* promptopt/logs is a directory
     logs |-> logs,                    \* the entries in it
     cache_files |-> cache_files,      \* the entries of promptopt/cache other than evals
     evals_dir |-> evals_dir,          \* promptopt/cache/evals is a directory
     revised |-> {}]                   \* the source files that hold a later revision

\* the directories of a session that has started: valid root sources, and
\* logs/ and cache/ made by _run_optimization
SessionTree ==
    Tree(TRUE, {"simple.md", "static.md"}, TRUE, RequiredAgents, TRUE, {}, {}, FALSE)

(***************************************************************************)
(* Python values.  A str is a record: its text folded to lower case (s),   *)
(* the letter case it is written in (c: "l" lower, "u" upper, "m" mixed)    *)
(* and whether it carries surrounding white space (pad), so that lower(),  *)
(* upper() and strip() are computed and not assumed.                        *)
(***************************************************************************)
Mk(s, c, pad) == [s |-> s, c |-> c, pad |-> pad]
K(s) == Mk(s, "l", FALSE)
Lower(x) == [x EXCEPT !.c = "l"]
Upper(x) == [x EXCEPT !.c = "u"]
Strip(x) == [x EXCEPT !.pad = FALSE]

JNull == [t |-> "null"]
JBool(b) == [t |-> "bool", v |-> b]
JNum(n) == [t |-> "num", v |-> n]
JStr(x) == [t |-> "str", v |-> x]
JList(xs) == [t |-> "list", v |-> xs]
JObj(pairs) == [t |-> "obj", v |-> pairs]
KV(k, v) == [k |-> k, v |-> v]

NotJson == [t |-> "notjson"]
Absent == [t |-> "absent"]

Ok(v) == [kind |-> "ok", val |-> v]
Raise(e) == [kind |-> "raise", exc |-> e]

MinOf(S) == CHOOSE i \in S : \A j \in S : i <= j

\* bool(x), and the x of "x or default"
PyTruthy(x) ==
    CASE x.t = "null" -> FALSE
      [] x.t = "bool" -> x.v
      [] x.t = "num" -> x.v # 0
      [] x.t = "str" -> x.v.s # "" \/ x.v.pad
      [] x.t = "list" -> Len(x.v) > 0
      [] x.t = "obj" -> Len(x.v) > 0

PyOr(x, d) == IF PyTruthy(x) THEN x ELSE d

\* float(x)
PyFloat(x) ==
    CASE x.t = "num" -> Ok(x.v)
      [] x.t = "bool" -> Ok(IF x.v THEN 1 ELSE 0)
      [] x.t = "str" -> IF x.v.s = "1" THEN Ok(1)
                        ELSE IF x.v.s = "0" THEN Ok(0)
                        ELSE Raise("ValueError")
      [] x.t \in {"null", "list", "obj"} -> Raise("TypeError")

\* list(x), for the values the model feeds it (a str is not among them)
PyList(x) ==
    CASE x.t = "list" -> Ok(x.v)
      [] x.t = "obj" -> Ok([i \in 1..Len(x.v) |-> JStr(x.v[i].k)])
      [] x.t \in {"null", "bool", "num"} -> Raise("TypeError")

\* dict(x)
PyDict(x) ==
    CASE x.t = "obj" -> Ok(x.v)
      [] x.t = "str" -> Raise("ValueError")
      [] x.t \in {"null", "bool", "num"} -> Raise("TypeError")

\* str(x), for scalars
PyStr(x) ==
    CASE x.t = "str" -> x
      [] x.t = "null" -> JStr(Mk("none", "m", FALSE))
      [] x.t = "bool" -> JStr(Mk(IF x.v THEN "true" ELSE "false", "m", FALSE))
      [] x.t = "num" -> JStr(K(IF x.v = 0 THEN "0" ELSE IF x.v = 1 THEN "1" ELSE "5"))

HasKey(pairs, k) == \E i \in 1..Len(pairs) : pairs[i].k = k
Lookup(pairs, k) == pairs[MinOf({i \in 1..Len(pairs) : pairs[i].k = k})].v

(***************************************************************************)
(* evaluator_client.py                                                     *)
(***************************************************************************)
\* _get_ci(data, key, default): exact, lower, upper, then a case-insensitive scan
get_ci(data, key, default) ==
    LET cands == <<key, Lower(key), Upper(key)>> IN
    CASE data.t = "obj" ->
            LET hits == {i \in 1..3 : HasKey(data.v, cands[i])}
                scan == {i \in 1..Len(data.v) : Lower(data.v[i].k) = Lower(key)}
            IN  IF hits # {} THEN Ok(Lookup(data.v, cands[MinOf(hits)]))
                ELSE IF scan # {} THEN Ok(data.v[MinOf(scan)].v)
                ELSE Ok(default)
      [] data.t = "list" ->
            \* "candidate in data" is element membership; data[candidate] and
            \* data.items() both fail on a list
            IF \E i \in 1..Len(data.v), j \in 1..3 :
                    data.v[i].t = "str" /\ data.v[i].v = cands[j]
            THEN Raise("TypeError") ELSE Raise("AttributeError")
      [] data.t = "str" ->
            IF \E j \in 1..3 : data.v = cands[j]
            THEN Raise("TypeError") ELSE Raise("AttributeError")
      [] data.t \in {"null", "bool", "num"} -> Raise("TypeError")

\* the loop of _parse_practice_attribution over notes_by.items()
normalize_notes(value) ==
    IF value.t = "list"
    THEN JList([i \in 1..Len(value.v) |-> PyStr(value.v[i])])
    ELSE JList(<<PyStr(value)>>)

PracticeAttribution(selected, offending, notes_by) ==
    [selected_practices |-> selected, offending_practices |-> offending,
     notes_by_practice |-> notes_by]

parse_practice_attribution(data) ==
    LET p0 == get_ci(data, K("practice_attribution"), JObj(<<>>)) IN
    IF p0.kind = "raise" THEN p0 ELSE
    LET practice == PyOr(p0.val, JObj(<<>>))
        s0 == get_ci(practice, K("selected_practices"), JList(<<>>)) IN
    IF s0.kind = "raise" THEN s0 ELSE
    LET o0 == get_ci(practice, K("offending_practices"), JList(<<>>)) IN
    IF o0.kind = "raise" THEN o0 ELSE
    LET n0 == get_ci(practice, K("notes_by_practice"), JObj(<<>>)) IN
    IF n0.kind = "raise" THEN n0 ELSE
    LET d == PyDict(PyOr(n0.val, JObj(<<>>))) IN
    IF d.kind = "raise" THEN d ELSE
    LET normalized == [i \in 1..Len(d.val) |->
                          KV(d.val[i].k, normalize_notes(d.val[i].v))]
        sel == PyList(PyOr(s0.val, JList(<<>>))) IN
    IF sel.kind = "raise" THEN sel ELSE
    LET off == PyList(PyOr(o0.val, JList(<<>>))) IN
    IF off.kind = "raise" THEN off ELSE
    Ok(PracticeAttribution(sel.val, off.val, normalized))

EvaluationResult(passed, score, flags, notes, pa, raw) ==
    [passed |-> passed, score |-> score, flags |-> flags, notes |-> notes,
     practice_attribution |-> pa, raw |-> raw]

\* EvaluationResult(passed=False, score=0.0)
Degraded ==
    EvaluationResult(FALSE, 0, <<>>, <<>>, PracticeAttribution(<<>>, <<>>, <<>>), JObj(<<>>))

\* parse_evaluator_json(path), on the content of the file
parse_evaluator_json(text) ==
    IF text.t = "notjson" THEN Raise("JSONDecodeError") ELSE
    LET data == text
        p == get_ci(data, K("pass"), JBool(FALSE)) IN
    IF p.kind = "raise" THEN p ELSE
    LET s0 == get_ci(data, K("score"), JNum(0)) IN
    IF s0.kind = "raise" THEN s0 ELSE
    LET score == PyFloat(s0.val) IN
    IF score.kind = "raise" THEN score ELSE
    LET f0 == get_ci(data, K("flags"), JList(<<>>)) IN
    IF f0.kind = "raise" THEN f0 ELSE
    LET flags == PyList(PyOr(f0.val, JList(<<>>))) IN
    IF flags.kind = "raise" THEN flags ELSE
    LET n0 == get_ci(data, K("notes"), JList(<<>>)) IN
    IF n0.kind = "raise" THEN n0 ELSE
    LET notes == PyList(PyOr(n0.val, JList(<<>>))) IN
    IF notes.kind = "raise" THEN notes ELSE
    LET pa == parse_practice_attribution(data) IN
    IF pa.kind = "raise" THEN pa ELSE
    Ok(EvaluationResult(PyTruthy(p.val), score.val, flags.val, notes.val, pa.val, data))

\* the exceptions line 153 catches: json.JSONDecodeError is a ValueError
Caught(exc) == exc \in {"JSONDecodeError", "ValueError"}


(***************************************************************************)
(* The evaluator.json contents the external process is let to write.       *)
(***************************************************************************)
Simple == K("simple")
NoteX == Mk("add_line: x", "m", FALSE)

A_full ==
    JObj(<<KV(K("pass"), JBool(TRUE)), KV(K("score"), JNum(5)),
           KV(K("flags"), JList(<<JStr(K("f1"))>>)),
           KV(K("notes"), JList(<<JStr(K("global note"))>>)),
           KV(K("practice_attribution"),
              JObj(<<KV(K("selected_practices"), JList(<<JStr(Simple)>>)),
                     KV(K("offending_practices"), JList(<<JStr(Simple)>>)),
                     KV(K("notes_by_practice"),
                        JObj(<<KV(Simple, JList(<<JStr(NoteX)>>))>>))>>))>>)
A_ci == JObj(<<KV(Upper(K("pass")), JBool(TRUE)), KV(Mk("score", "m", FALSE), JNum(1))>>)
A_empty == JObj(<<>>)
A_failed == JObj(<<KV(K("pass"), JBool(FALSE)), KV(K("score"), JNum(0))>>)
A_scoreNull == JObj(<<KV(K("pass"), JBool(TRUE)), KV(K("score"), JNull)>>)
A_scoreStr == JObj(<<KV(K("pass"), JBool(TRUE)), KV(K("score"), JStr(K("abc")))>>)
A_flagsNull ==
    JObj(<<KV(K("pass"), JBool(TRUE)), KV(K("score"), JNum(1)), KV(K("flags"), JNull)>>)
A_flagsNum == JObj(<<KV(K("flags"), JNum(5))>>)
A_paNum == JObj(<<KV(K("practice_attribution"), JNum(5))>>)
A_noteStr ==
    JObj(<<KV(K("pass"), JBool(TRUE)), KV(K("score"), JNum(1)),
           KV(K("practice_attribution"),
              JObj(<<KV(K("notes_by_practice"), JObj(<<KV(Simple, JStr(NoteX))>>))>>))>>)
A_list == JList(<<>>)
A_null == JNull

Artifacts ==
    {NotJson, A_full, A_ci, A_empty, A_failed, A_scoreNull, A_scoreStr, A_flagsNull,
     A_flagsNum, A_paNum, A_noteStr, A_list, A_null}

ExitCodes == {0, 1}
SleepSteps == {5, MaxSleep}
Timeouts == {0, MaxTimeout}

(***************************************************************************)
(* evaluate_bundle, lines 65-156.                                          *)
(***************************************************************************)
\* mutants of the retry condition of line 141
RetryNeeded_IgnoresArtifact(rc, art) == rc # 0
RetryNeeded_IgnoresExit(rc, art) == art = Absent
RetryNeeded_Never(rc, art) == FALSE

\* line 141: if returncode != 0 and not evaluator_json.exists()
RetryNeeded(rc, art) == rc # 0 /\ art = Absent

\* mutants of the TimeoutExpired handlers
AfterTimeout_RetryAgain(s) ==
    CASE s = 1 -> "line132"
      [] s = 2 -> "line132"
      [] s = 3 -> "line150"
AfterTimeout_GiveUp(s) ==
    CASE s = 1 -> "line132"
      [] s = 2 -> "return135"
      [] s = 3 -> "return135"

\* where a TimeoutExpired raised by the run_eval_once call of site s is handled
AfterTimeout(s) ==
    CASE s = 1 -> "line132"
      [] s = 2 -> "return135"
      [] s = 3 -> "line150"

\* a variant in which a retry that returns is launched once more
AfterReturn_RetryAgain(s) ==
    CASE s = 1 -> "line141"
      [] s = 2 -> "line145"
      [] s = 3 -> "line150"

\* where control goes when the run_eval_once call of site s returns
AfterReturn(s) ==
    CASE s = 1 -> "line141"
      [] s = 2 -> "line141"
      [] s = 3 -> "line150"

SiteOf(p) == CASE p = "line128" -> 1 [] p = "line132" -> 2 [] p = "line145" -> 3

TerminalState(rc) == IF rc = 0 THEN "Succeeded" ELSE "NonZeroExit"

Attempt(state, art) == [state |-> state, artifact |-> art]

Returned(line, val) == [kind |-> "return", line |-> line, val |-> val]
Raised(exc) == [kind |-> "raise", exc |-> exc]
NoOutcome == [kind |-> "none"]

\* lines 150-156 on the content of evaluator.json
ReadResult(art) ==
    IF art # Absent
    THEN LET r == parse_evaluator_json(art) IN
         IF r.kind = "ok" THEN Returned("L152", r.val)
         ELSE IF Caught(r.exc) THEN Returned("L154", Degraded)
         ELSE Raised(r.exc)
    ELSE Returned("L156", Degraded)

ProgramAtRest ==
    /\ instructions = <<>>
    /\ fixed_updates = <<>>
    /\ mutable_files = {}
    /\ cache = <<>>
    /\ eval_calls = <<>>
    /\ bundles = <<>>
    /\ scratch = 0
    /\ active = Absent
    /\ verdict = <<>>
    /\ rounds = 0
    /\ phase = "none"
    /\ last = [kind |-> "none"]
    /\ tree = SessionTree

\* the state at line 127: out_dir exists (it is reused, never cleared)
InitEval ==
    /\ pc = "line128"
    /\ site = 0
    /\ launches = 0
    /\ proc = "none"
    /\ exitcode = 0
    /\ returncode = 0
    /\ artifact \in {Absent, A_failed}
    /\ written_by = 0
    /\ timeout_seconds \in Timeouts
    /\ elapsed = 0
    /\ next_heartbeat = 0
    /\ heartbeats = 0
    /\ history = <<>>
    /\ outcome = NoOutcome
    /\ ProgramAtRest

\* lines 103-105: subprocess.Popen, started, next_heartbeat
Popen ==
    /\ pc \in {"line128", "line132", "line145"}
    /\ site' = SiteOf(pc)
    /\ launches' = launches + 1
    /\ proc' = "running"
    /\ elapsed' = 0
    /\ next_heartbeat' = HEARTBEAT_SECONDS
    /\ heartbeats' = 0
    /\ pc' = "poll"
    /\ UNCHANGED <<exitcode, returncode, artifact, written_by, timeout_seconds, history, outcome>>
    /\ UNCHANGED <<pvars, wvars>>

\* the external process writes (or removes) evaluator.json while it runs
ProcWrite(a) ==
    /\ proc = "running"
    /\ artifact # a \/ written_by # launches
    /\ artifact' = a
    /\ written_by' = launches
    /\ UNCHANGED <<pc, site, launches, proc, exitcode, returncode, timeout_seconds,
                   elapsed, next_heartbeat, heartbeats, history, outcome>>
    /\ UNCHANGED <<pvars, wvars>>

\* the external process exits
ProcExit(rc) ==
    /\ proc = "running"
    /\ proc' = "exited"
    /\ exitcode' = rc
    /\ UNCHANGED <<pc, site, launches, returncode, artifact, written_by, timeout_seconds,
                   elapsed, next_heartbeat, heartbeats, history, outcome>>
    /\ UNCHANGED <<pvars, wvars>>

\* a variant of lines 115-116 that leaves the process as it was
KillAndWait_NoKill(p) == p

\* lines 115-116: process.kill(); process.wait() on the child in state p
KillAndWait(p) == "reaped"

\* lines 108-110: poll() returns the exit code
PollReturn ==
    /\ pc = "poll"
    /\ proc = "exited"
    /\ returncode' = exitcode
    /\ proc' = "reaped"
    /\ history' = Append(history, Attempt(TerminalState(exitcode), artifact))
    /\ pc' = AfterReturn(site)
    /\ UNCHANGED <<site, launches, exitcode, artifact, written_by, timeout_seconds, elapsed,
                   next_heartbeat, heartbeats, outcome>>
    /\ UNCHANGED <<pvars, wvars>>

\* lines 112-117: the timeout has elapsed: kill, wait, raise TimeoutExpired
PollTimeout ==
    /\ pc = "poll"
    /\ proc = "running"
    /\ elapsed >= timeout_seconds
    /\ proc' = KillAndWait(proc)
    /\ history' = Append(history, Attempt("TimedOut", artifact))
    /\ LET to == AfterTimeout(site) IN
       IF to = "return135"
       THEN pc' = "done" /\ outcome' = Returned("L135", Degraded)
       ELSE pc' = to /\ outcome' = outcome
    /\ UNCHANGED <<site, launches, exitcode, returncode, artifact, written_by, timeout_seconds,
                   elapsed, next_heartbeat, heartbeats>>
    /\ UNCHANGED <<pvars, wvars>>

\* a variant of lines 119-123 in which the heartbeat restarts the clock of
\* the attempt (started = now)
PollSleep_HeartbeatRestartsClock(d) ==
    /\ pc = "poll"
    /\ proc = "running"
    /\ elapsed < timeout_seconds
    /\ IF elapsed >= next_heartbeat
       THEN /\ heartbeats' = heartbeats + 1
            /\ next_heartbeat' = HEARTBEAT_SECONDS
            /\ elapsed' = d
       ELSE /\ UNCHANGED <<heartbeats, next_heartbeat>>
            /\ elapsed' = elapsed + d
    /\ UNCHANGED <<pc, site, launches, proc, exitcode, returncode, artifact, written_by,
                   timeout_seconds, history, outcome>>
    /\ UNCHANGED <<pvars, wvars>>

\* lines 119-123: heartbeat when due, then sleep
PollSleep(d) ==
    /\ pc = "poll"
    /\ proc = "running"
    /\ elapsed < timeout_seconds
    /\ IF elapsed >= next_heartbeat
       THEN /\ heartbeats' = heartbeats + 1
            /\ next_heartbeat' = elapsed + HEARTBEAT_SECONDS
       ELSE UNCHANGED <<heartbeats, next_heartbeat>>
    /\ elapsed' = elapsed + d
    /\ UNCHANGED <<pc, site, launches, proc, exitcode, returncode, artifact, written_by,
                   timeout_seconds, history, outcome>>
    /\ UNCHANGED <<pvars, wvars>>

\* lines 139-148: retry after a non-zero exit without artifact
CheckRetry ==
    /\ pc = "line141"
    /\ pc' = IF RetryNeeded(returncode, artifact) THEN "line145" ELSE "line150"
    /\ UNCHANGED <<site, launches, proc, exitcode, returncode, artifact, written_by, timeout_seconds,
                   elapsed, next_heartbeat, heartbeats, history, outcome>>
    /\ UNCHANGED <<pvars, wvars>>

\* ReadResult for every content evaluator.json can have, computed once
ReadResults == [art \in Artifacts \cup {Absent} |-> ReadResult(art)]

\* lines 150-156: parse the artifact or give the degraded result
ReadArtifact ==
    /\ pc = "line150"
    /\ outcome' = ReadResults[artifact]
    /\ pc' = IF outcome'.kind = "raise" THEN "raised" ELSE "done"
    /\ UNCHANGED <<site, launches, proc, exitcode, returncode, artifact, written_by, timeout_seconds,
                   elapsed, next_heartbeat, heartbeats, history>>
    /\ UNCHANGED <<pvars, wvars>>

NextEval ==
    \/ Popen
    \/ \E a \in Artifacts \cup {Absent} : ProcWrite(a)
    \/ \E rc \in ExitCodes : ProcExit(rc)
    \/ PollReturn
    \/ PollTimeout
    \/ \E d \in SleepSteps : PollSleep(d)
    \/ CheckRetry
    \/ ReadArtifact

SpecEval == InitEval /\ [][NextEval]_vars

Finished == pc \in {"done", "raised"}


(***************************************************************************)
(* Claims about evaluate_bundle, checked under SpecEval.                   *)
(***************************************************************************)
Parsed(a) == parse_evaluator_json(a)
Parses(a) == a # Absent /\ Parsed(a).kind = "ok"

BothTimedOut ==
    /\ Len(history) >= 2
    /\ history[1].state = "TimedOut"
    /\ history[2].state = "TimedOut"

\* C1: one call of evaluate_bundle launches the external process at most
\* 2 times, whatever the attempts' outcomes are.
C1_AtMostTwoLaunches == launches <= 2

\* the evaluator.json contract of the external CLI: the type of each field
FieldTypes ==
    {[key |-> "pass", types |-> {"bool"}],
     [key |-> "score", types |-> {"num"}],
     [key |-> "flags", types |-> {"list"}],
     [key |-> "notes", types |-> {"list"}],
     [key |-> "practice_attribution", types |-> {"obj"}]}

Malformed(a) ==
    \/ a.t \in {"absent", "notjson"}
    \/ a.t # "obj"
    \/ \E f \in FieldTypes :
          LET x == get_ci(a, K(f.key), Absent).val IN
          x.t # "absent" /\ x.t \notin f.types

\* C3: when evaluator.json is missing or malformed once the attempts have
\* ended, evaluate_bundle returns a result with passed=false and score=0.0
\* and raises nothing.
C3_MalformedDegrades ==
    (Finished /\ Malformed(artifact)) =>
        (outcome.kind = "return" /\ ~outcome.val.passed /\ outcome.val.score = 0)

\* C4: when the first attempt and its retry both time out, exactly 2
\* processes were launched and the call has returned the degraded result.
C4_TwoTimeouts ==
    BothTimedOut =>
        (launches = 2 /\ pc = "done" /\ outcome = Returned("L135", Degraded))

C4_Witness == BothTimedOut /\ pc = "done" /\ launches = 2

FirstNonZeroWithValid ==
    /\ Len(history) >= 1
    /\ history[1].state = "NonZeroExit"
    /\ Parses(history[1].artifact)

\* C5: a first attempt that exits non-zero with a valid evaluator.json
\* present is not retried (1 launch) and the call returns the result parsed
\* from that artifact.
C5_NonZeroWithArtifact ==
    FirstNonZeroWithValid =>
        /\ launches = 1
        /\ Finished => outcome = Returned("L152", Parsed(history[1].artifact).val)

C5_Witness ==
    /\ FirstNonZeroWithValid
    /\ Finished
    /\ outcome.kind = "return"
    /\ outcome.val.passed
    /\ outcome.val.score = 5
    /\ outcome.val # Degraded

FirstSucceeded == Len(history) >= 1 /\ history[1].state = "Succeeded"

\* C6: when the first process exits with code 0, no further process is
\* launched, whether or not the artifact is present.
C6_SuccessNoRetry == FirstSucceeded => launches = 1

C6_Witness == FirstSucceeded /\ Finished /\ history[1].artifact = Absent /\ launches = 1

FirstNonZeroMissing ==
    /\ Len(history) >= 1
    /\ history[1].state = "NonZeroExit"
    /\ history[1].artifact = Absent

\* C7: a first attempt that exits non-zero without evaluator.json is retried
\* exactly once; if the artifact is still missing after the retry (which may
\* exit or time out) the call returns the degraded result and raises nothing.
C7_NonZeroMissingRetriesOnce ==
    FirstNonZeroMissing =>
        /\ launches <= 2
        /\ pc \in {"line150", "done", "raised"} => (launches = 2 /\ Len(history) = 2)
        /\ (Finished /\ artifact = Absent) => outcome = Returned("L156", Degraded)

C7_Witness ==
    /\ FirstNonZeroMissing
    /\ Finished
    /\ artifact = Absent
    /\ Len(history) = 2
    /\ history[2].state = "TimedOut"
    /\ outcome = Returned("L156", Degraded)

ArtifactRule ==
    /\ Parses(artifact) => outcome = Returned("L152", Parsed(artifact).val)
    /\ (outcome.kind = "return" /\ outcome.line # "L152") =>
           (artifact = Absent \/ Parsed(artifact).kind = "raise")

\* C8 as claimed: whatever terminal state ended the evaluation, a present
\* and parseable evaluator.json is returned, and the degraded result is
\* returned only when the artifact is absent or fails to parse.
C8_AnyTerminalStateReadsArtifact == Finished => ArtifactRule

\* C8 as amended: the same, except when the first attempt and its retry both
\* timed out: then the degraded result is returned without looking at the
\* artifact.
C8_ReadsArtifactUnlessTwoTimeouts ==
    Finished =>
        IF BothTimedOut THEN outcome = Returned("L135", Degraded) ELSE ArtifactRule

C8_Witness ==
    /\ Finished
    /\ Len(history) = 2
    /\ history[1].state = "NonZeroExit"
    /\ history[2].state = "TimedOut"
    /\ Parses(artifact)
    /\ outcome = Returned("L152", Parsed(artifact).val)
    /\ outcome.val # Degraded


(***************************************************************************)
(* models.py and bundle_store.py: bundles.  A body is a sequence of        *)
(* characters, so that strip() and the concatenation hashed by hash_bundle *)
(* are computed.                                                           *)
(***************************************************************************)
Static == K("static")
SimpleMd == K("simple.md")
StaticMd == K("static.md")
LeadMd == K("agents/lead.md")

PracticeFile(file_name, name, frontmatter, body) ==
    [file_name |-> file_name, name |-> name, frontmatter |-> frontmatter, body |-> body]

SeedPractices ==
    <<PracticeFile(SimpleMd, Simple, "Name: simple", <<"h">>),
      PracticeFile(StaticMd, Static, "Name: static", <<"s">>)>>

SeedBundle ==
    [bundle_id |-> "seed", practices |-> SeedPractices,
     passthrough_files |-> <<KV(LeadMd, <<"L">>)>>, meta |-> <<>>]

FileNames == {SeedPractices[i].file_name : i \in DOMAIN SeedPractices}
PredNames == <<"practice_0", "practice_1">>

RECURSIVE Flatten(_)
Flatten(seqs) == IF seqs = <<>> THEN <<>> ELSE Head(seqs) \o Flatten(Tail(seqs))

\* str.strip() on a body
RECURSIVE LStrip(_)
LStrip(b) == IF b # <<>> /\ Head(b) = " " THEN LStrip(Tail(b)) ELSE b
RECURSIVE RStrip(_)
RStrip(b) == IF b # <<>> /\ b[Len(b)] = " " THEN RStrip(SubSeq(b, 1, Len(b) - 1)) ELSE b
StripBody(b) == RStrip(LStrip(b))

\* the order sorted() puts the file names of the model in
NameRank(x) ==
    CASE x.s = "agents/lead.md" -> 1
      [] x.s = "simple.md" -> 2
      [] x.s = "static.md" -> 3
      [] x.s = "y.md" -> 4
      [] x.s = "z.md" -> 5
      [] OTHER -> 6

RECURSIVE SortByName(_)
SortByName(names) ==
    IF names = {} THEN <<>>
    ELSE LET m == CHOOSE n \in names : \A o \in names : NameRank(n) <= NameRank(o)
         IN  <<m>> \o SortByName(names \ {m})

DictKeys(d) == {d[i].k : i \in DOMAIN d}
DictGet(d, k, default) == IF HasKey(d, k) THEN Lookup(d, k) ELSE default
PracticeOf(practices, file_name) ==
    practices[MinOf({i \in DOMAIN practices : practices[i].file_name = file_name})]

\* Path(file_name).stem, for the file names of the model
Stem(x) ==
    [x EXCEPT !.s = CASE x.s = "simple.md" -> "simple"
                      [] x.s = "static.md" -> "static"
                      [] x.s = "y.md" -> "y"
                      [] x.s = "z.md" -> "z"
                      [] OTHER -> x.s]

\* variant of build_bundle_from_seed that keeps the bodies as given
build_bundle_from_seed_NoStrip(seed, updates) ==
    LET IsNew(u) == \A i \in DOMAIN seed.practices : seed.practices[i].file_name # u.k
        kept == [i \in DOMAIN seed.practices |->
                    LET p == seed.practices[i] IN
                    PracticeFile(p.file_name, p.name, p.frontmatter,
                                 DictGet(updates, p.file_name, p.body))]
        new == SelectSeq(updates, IsNew)
        added == [i \in DOMAIN new |-> PracticeFile(new[i].k, Stem(new[i].k), "", new[i].v)]
    IN  [bundle_id |-> seed.bundle_id, practices |-> kept \o added,
         passthrough_files |-> seed.passthrough_files, meta |-> seed.meta]

\* the seed object after build_bundle_from_seed(seed, updates): the function
\* fills a dict of its own with new PracticeFile objects, copies the
\* passthrough dict and assigns to nothing of the seed
SeedAfterBuild(seed, updates) == seed

\* build_bundle_from_seed(seed, updates); updates is a dict, in insertion order
build_bundle_from_seed(seed, updates) ==
    LET IsNew(u) == \A i \in DOMAIN seed.practices : seed.practices[i].file_name # u.k
        kept == [i \in DOMAIN seed.practices |->
                    LET p == seed.practices[i] IN
                    PracticeFile(p.file_name, p.name, p.frontmatter,
                                 StripBody(DictGet(updates, p.file_name, p.body)))]
        new == SelectSeq(updates, IsNew)
        added == [i \in DOMAIN new |->
                    PracticeFile(new[i].k, Stem(new[i].k), "", StripBody(new[i].v))]
    IN  [bundle_id |-> seed.bundle_id, practices |-> kept \o added,
         passthrough_files |-> seed.passthrough_files, meta |-> seed.meta]

\* hashlib.sha256(content).hexdigest(): the digest is taken to be injective
\* and is represented by the content it is computed from
Digest(content) == content

\* variant of hash_bundle that joins the bodies in the order of the dict
hash_bundle_InsertionOrder(practices, passthrough_files) ==
    LET content == Flatten([i \in DOMAIN practices |-> practices[i].body])
        pnames == SortByName(DictKeys(passthrough_files))
        extra == Flatten([i \in DOMAIN pnames |->
                    <<pnames[i].s, "\n">> \o Lookup(passthrough_files, pnames[i])])
    IN  Digest(IF Len(passthrough_files) > 0 THEN content \o extra ELSE content)

\* hash_bundle(practices, passthrough_files)
hash_bundle(practices, passthrough_files) ==
    LET names == SortByName({practices[i].file_name : i \in DOMAIN practices})
        content == Flatten([i \in DOMAIN names |-> PracticeOf(practices, names[i]).body])
        pnames == SortByName(DictKeys(passthrough_files))
        extra == Flatten([i \in DOMAIN pnames |->
                    <<pnames[i].s, "\n">> \o Lookup(passthrough_files, pnames[i])])
    IN  Digest(IF Len(passthrough_files) > 0 THEN content \o extra ELSE content)

\* PracticeFile.render()
render(practice) ==
    IF practice.frontmatter # ""
    THEN <<"---\n", practice.frontmatter, "\n---\n\n">> \o practice.body
    ELSE practice.body

\* f"gen{generation}_{content_hash[:8]}"; the model keeps the digest whole
BundleId(generation, content_hash) == [generation |-> generation, hash8 |-> content_hash]

Put(f, k, v) == [x \in DOMAIN f \cup {k} |-> IF x = k THEN v ELSE f[x]]

\* variants of the existence check of l.234
AlreadyExists_IgnoresExistOk(fs, bundle_id, exist_ok) == bundle_id \in DOMAIN fs
AlreadyExists_Never(fs, bundle_id, exist_ok) == FALSE

\* l.234: bundle_path.exists() and not exist_ok
AlreadyExists(fs, bundle_id, exist_ok) == bundle_id \in DOMAIN fs /\ ~exist_ok

\* l.237-247: the files of the bundle directory are written only when the
\* directory did not exist
BundleFiles(fs, bundle_id, bundle) ==
    IF bundle_id \in DOMAIN fs THEN fs[bundle_id].files
    ELSE [practices |-> [i \in DOMAIN bundle.practices |->
                            KV(bundle.practices[i].file_name, render(bundle.practices[i]))],
          passthrough |-> bundle.passthrough_files]

\* l.249-257: the metadata record, a dict (created_at, a timestamp, is left
\* out); meta.update(metadata) lets the caller's keys win
MetaRecord(bundle_id, parent_id, generation, content_hash, metadata) ==
    LET meta == [id |-> bundle_id, parent |-> parent_id, generation |-> generation,
                 hash |-> content_hash]
    IN  [k \in DOMAIN meta \cup DOMAIN metadata |->
            IF k \in DOMAIN metadata THEN metadata[k] ELSE meta[k]]

\* a variant of l.259 that keeps the meta.json of an existing directory
MetaJson_KeptIfPresent(fs, bundle_id, meta) ==
    IF bundle_id \in DOMAIN fs THEN fs[bundle_id].meta ELSE meta

\* l.259: meta.json is written on every call that gets here
MetaJson(fs, bundle_id, meta) == meta

\* write_bundle(bundle_root, bundle, parent_id, generation, metadata, exist_ok)
\* on the directories fs under bundle_root
write_bundle(fs, bundle, parent_id, generation, metadata, exist_ok) ==
    LET content_hash == hash_bundle(bundle.practices, bundle.passthrough_files)
        bundle_id == BundleId(generation, content_hash)
        meta == MetaRecord(bundle_id, parent_id, generation, content_hash, metadata)
    IN  IF AlreadyExists(fs, bundle_id, exist_ok)
        THEN [kind |-> "raise", exc |-> "FileExistsError", fs |-> fs]
        ELSE [kind |-> "ok",
              fs |-> Put(fs, bundle_id, [files |-> BundleFiles(fs, bundle_id, bundle),
                                         meta |-> MetaJson(fs, bundle_id, meta)]),
              bundle |-> [bundle_id |-> bundle_id, practices |-> bundle.practices,
                          passthrough_files |-> bundle.passthrough_files, meta |-> meta]]

(***************************************************************************)
(* cache.py and models.py: the evaluation cache.  An entry is the JSON     *)
(* document written by set.                                                 *)
(***************************************************************************)
\* variant of to_dict that leaves the notes of each practice out
to_dict_NoPracticeNotes(e) ==
    JObj(<<KV(K("pass"), JBool(e.passed)),
           KV(K("score"), JNum(e.score)),
           KV(K("flags"), JList(e.flags)),
           KV(K("notes"), JList(e.notes)),
           KV(K("practice_attribution"),
              JObj(<<KV(K("selected_practices"),
                        JList(e.practice_attribution.selected_practices)),
                     KV(K("offending_practices"),
                        JList(e.practice_attribution.offending_practices))>>))>>)

\* EvaluationResult.to_dict
to_dict(e) ==
    JObj(<<KV(K("pass"), JBool(e.passed)),
           KV(K("score"), JNum(e.score)),
           KV(K("flags"), JList(e.flags)),
           KV(K("notes"), JList(e.notes)),
           KV(K("practice_attribution"),
              JObj(<<KV(K("selected_practices"),
                        JList(e.practice_attribution.selected_practices)),
                     KV(K("offending_practices"),
                        JList(e.practice_attribution.offending_practices)),
                     KV(K("notes_by_practice"),
                        JObj(e.practice_attribution.notes_by_practice))>>))>>)

\* data.get(key, default)
JGet(data, key, default) ==
    IF data.t = "obj" THEN Ok(DictGet(data.v, K(key), default))
    ELSE Raise("AttributeError")

\* EvaluationResult.from_dict
from_dict(data) ==
    LET pr == JGet(data, "practice_attribution", JNull) IN
    IF pr.kind = "raise" THEN pr ELSE
    LET practice == PyOr(pr.val, JObj(<<>>))
        score == PyFloat(JGet(data, "score", JNum(0)).val) IN
    IF score.kind = "raise" THEN score ELSE
    LET flags == PyList(PyOr(JGet(data, "flags", JNull).val, JList(<<>>))) IN
    IF flags.kind = "raise" THEN flags ELSE
    LET notes == PyList(PyOr(JGet(data, "notes", JNull).val, JList(<<>>))) IN
    IF notes.kind = "raise" THEN notes ELSE
    LET s0 == JGet(practice, "selected_practices", JNull) IN
    IF s0.kind = "raise" THEN s0 ELSE
    LET sel == PyList(PyOr(s0.val, JList(<<>>))) IN
    IF sel.kind = "raise" THEN sel ELSE
    LET off == PyList(PyOr(JGet(practice, "offending_practices", JNull).val, JList(<<>>))) IN
    IF off.kind = "raise" THEN off ELSE
    LET nb == PyDict(PyOr(JGet(practice, "notes_by_practice", JNull).val, JObj(<<>>))) IN
    IF nb.kind = "raise" THEN nb ELSE
    Ok(EvaluationResult(PyTruthy(JGet(data, "pass", JBool(FALSE)).val), score.val,
                        flags.val, notes.val,
                        PracticeAttribution(sel.val, off.val, nb.val), data))

\* a variant of _path that files every entry of a run in one place
CacheKey_RunOnly(run_id, bundle_hash) == <<run_id, <<>>>>

\* _path: evals/<bundle_hash>/<run_id>.json
CacheKey(run_id, bundle_hash) == <<run_id, bundle_hash>>

\* EvaluationCache.get: None (JNull) when the entry's file does not exist
cache_get(c, run_id, bundle_hash) ==
    LET key == CacheKey(run_id, bundle_hash) IN
    IF key \notin DOMAIN c THEN Ok(JNull)
    ELSE IF c[key].t = "notjson" THEN Raise("JSONDecodeError")
    ELSE LET ev == JGet(c[key], "evaluation", c[key]) IN
         IF ev.kind = "raise" THEN ev ELSE from_dict(ev.val)

\* EvaluationCache.set (cached_at, a timestamp, is left out of the payload)
cache_payload(run_id, bundle_hash, evaluation) ==
    JObj(<<KV(K("run_id"), JStr(K(run_id))),
           KV(K("bundle_hash"), [t |-> "hash", v |-> bundle_hash]),
           KV(K("evaluation"), to_dict(evaluation))>>)

cache_set(c, run_id, bundle_hash, evaluation) ==
    Put(c, CacheKey(run_id, bundle_hash), cache_payload(run_id, bundle_hash, evaluation))


(***************************************************************************)
(* run_gepa.py: BundleProgram                                              *)
(***************************************************************************)
\* _register_alias, as __init__ calls it for every practice in order
AliasEntriesOf(practices) ==
    Flatten([i \in DOMAIN practices |->
        LET p == practices[i] IN
        <<[alias |-> p.name, file |-> p.file_name],
          [alias |-> p.file_name, file |-> p.file_name],
          [alias |-> Stem(p.file_name), file |-> p.file_name]>>])

AliasEntries == AliasEntriesOf(SeedPractices)

\* variant of the key of an alias that keeps the letter case
AliasKey_CaseSensitive(alias) == Strip(alias)

\* alias.strip().lower()
AliasKey(alias) == Lower(Strip(alias))

\* _resolve_practice_file for a program built on the given practices: the
\* first alias registered under the key wins (l.368-370)
resolve_practice_file_of(practices, practice_name) ==
    LET entries == AliasEntriesOf(practices)
        key == AliasKey(practice_name)
        idx == {i \in DOMAIN entries : AliasKey(entries[i].alias) = key /\ key.s # ""}
    IN  IF idx = {} THEN [found |-> FALSE]
        ELSE [found |-> TRUE, file |-> entries[MinOf(idx)].file]

\* _resolve_practice_file: file_by_alias.get(practice_name.strip().lower())
resolve_practice_file(practice_name) == resolve_practice_file_of(SeedPractices, practice_name)

\* _extract_targeted_files for a program built on the given practices
extract_targeted_files_of(practices, evaluation) ==
    LET nb == evaluation.practice_attribution.notes_by_practice IN
    IF Len(nb) = 0 THEN {}
    ELSE {resolve_practice_file_of(practices, nb[i].k).file :
             i \in {j \in DOMAIN nb : resolve_practice_file_of(practices, nb[j].k).found}}

\* a variant of _extract_targeted_files that targets every attributed name,
\* resolved or not
extract_targeted_files_Unresolved(evaluation) ==
    LET nb == evaluation.practice_attribution.notes_by_practice IN
    {IF resolve_practice_file(nb[i].k).found THEN resolve_practice_file(nb[i].k).file
     ELSE AliasKey(nb[i].k) : i \in DOMAIN nb}

\* _extract_targeted_files
extract_targeted_files(evaluation) ==
    LET nb == evaluation.practice_attribution.notes_by_practice IN
    IF Len(nb) = 0 THEN {}
    ELSE {resolve_practice_file(nb[i].k).file :
             i \in {j \in DOMAIN nb : resolve_practice_file(nb[j].k).found}}

\* _collect_targeted_files; evaluations_by_run is a list of (run_id, evaluation)
collect_targeted_files(evaluations_by_run) ==
    UNION {extract_targeted_files(evaluations_by_run[i].evaluation) :
              i \in DOMAIN evaluations_by_run}

\* _current_practice_updates
current_practice_updates(instr, fixed, mutable) ==
    [i \in DOMAIN SeedPractices |->
        LET practice == SeedPractices[i] IN
        KV(practice.file_name,
           IF practice.file_name \in mutable THEN instr[i]
           ELSE IF practice.file_name \in DOMAIN fixed THEN fixed[practice.file_name]
           ELSE practice.body)]

StrList(xs) == \A i \in DOMAIN xs : xs[i].t = "str"

\* a variant of the gathering of practice notes that keeps none
NotesByFile_None(evaluations_by_run, file_name) == <<>>

\* the practice notes _build_feedback_map gathers for one file, each
\* prefixed with its run id
NotesByFile(evaluations_by_run, file_name) ==
    Flatten([i \in DOMAIN evaluations_by_run |->
        LET nb == evaluations_by_run[i].evaluation.practice_attribution.notes_by_practice IN
        Flatten([j \in DOMAIN nb |->
            LET r == resolve_practice_file(nb[j].k) IN
            IF r.found /\ r.file = file_name
            THEN [n \in DOMAIN nb[j].v.v |->
                     [run |-> evaluations_by_run[i].run_id, note |-> nb[j].v.v[n]]]
            ELSE <<>>])])

\* _build_feedback_map: ", ".join(flags) and " | ".join(notes) need strs
build_feedback_map(evaluations_by_run, targeted_files) ==
    IF \E i \in DOMAIN evaluations_by_run :
           \/ ~StrList(evaluations_by_run[i].evaluation.flags)
           \/ ~StrList(evaluations_by_run[i].evaluation.notes)
    THEN Raise("TypeError")
    ELSE LET summary_lines ==
                 [i \in DOMAIN evaluations_by_run |->
                     LET e == evaluations_by_run[i].evaluation IN
                     [run |-> evaluations_by_run[i].run_id, passed |-> e.passed,
                      score |-> e.score, flags |-> e.flags, notes |-> e.notes]]
             preds == {PredNames[i] : i \in {j \in DOMAIN SeedPractices :
                          SeedPractices[j].file_name \in targeted_files}}
             FileOf(pred) ==
                 SeedPractices[MinOf({i \in DOMAIN PredNames : PredNames[i] = pred})].file_name
         IN  Ok([pred \in preds |->
                    [evaluation_summary |-> summary_lines,
                     practice_notes |-> NotesByFile(evaluations_by_run, FileOf(pred))]])

\* _build_attribution_diagnostics
build_attribution_diagnostics(evaluations_by_run) ==
    [i \in DOMAIN evaluations_by_run |->
        LET e == evaluations_by_run[i].evaluation IN
        [run |-> evaluations_by_run[i].run_id,
         selected_practices |-> e.practice_attribution.selected_practices,
         offending_practices |-> e.practice_attribution.offending_practices,
         notes_by_practice_keys |-> DictKeys(e.practice_attribution.notes_by_practice),
         flags |-> e.flags, notes |-> e.notes, score |-> e.score, passed |-> e.passed]]

RECURSIVE SumScores(_)
SumScores(evaluations_by_run) ==
    IF evaluations_by_run = <<>> THEN 0
    ELSE Head(evaluations_by_run).evaluation.score + SumScores(Tail(evaluations_by_run))

Bump(calls, key) == Put(calls, key, IF key \in DOMAIN calls THEN calls[key] + 1 ELSE 1)

\* the one element of a singleton set; a value bound through a singleton
\* set is computed once
Sole(S) == CHOOSE x \in S : TRUE

\* one pass of the loop of forward (l.482-503) and of the final scoring
\* (l.977-998): cache.get, else prepare_task_dir, evaluate_bundle, cache.set.
\* ev[run_id] is how evaluate_bundle ends for that run when it is called:
\* the replay of a run is taken to end the same way throughout a session.
EvalOne(run_id, bundle_hash, ev, st, cached) ==
    IF cached.kind = "raise" THEN [st EXCEPT !.raised = cached.exc]
    ELSE IF cached.val # JNull
    THEN [st EXCEPT !.evals = Append(@, [run_id |-> run_id, evaluation |-> cached.val])]
    ELSE IF ev[run_id].kind = "raise"
    THEN [st EXCEPT !.scratch = @ + 1,
                    !.eval_calls = Bump(@, CacheKey(run_id, bundle_hash)),
                    !.raised = ev[run_id].exc]
    ELSE [st EXCEPT !.scratch = @ + 1,
                    !.eval_calls = Bump(@, CacheKey(run_id, bundle_hash)),
                    !.cache = cache_set(@, run_id, bundle_hash, ev[run_id].val),
                    !.evals = Append(@, [run_id |-> run_id, evaluation |-> ev[run_id].val])]

\* the loop over batch_ids; an exception ends it
RECURSIVE EvalLoop(_, _, _, _)
EvalLoop(batch_ids, bundle_hash, ev, st) ==
    IF batch_ids = <<>> \/ st.raised # "" THEN st
    ELSE Sole({EvalLoop(Tail(batch_ids), bundle_hash, ev, next) :
                next \in {Sole({EvalOne(Head(batch_ids), bundle_hash, ev, st, cached) :
                    cached \in {cache_get(st.cache, Head(batch_ids), bundle_hash)}})}})

\* the state the loop starts from
LoopStart(c, calls, tmp) ==
    [cache |-> c, eval_calls |-> calls, scratch |-> tmp, evals |-> <<>>, raised |-> ""]

Prediction(score, feedback, feedback_by_pred, attribution_by_run) ==
    [score |-> score, feedback |-> feedback, feedback_by_pred |-> feedback_by_pred,
     attribution_by_run |-> attribution_by_run]

NoPrediction == Prediction([sum |-> 0, n |-> 0], <<>>, <<>>, <<>>)

CallRecord(kind, raised, batch, bundle_hash, evals, targeted, pre_fixed, pre_mutable, pred) ==
    [kind |-> kind, raised |-> raised, batch |-> batch, bundle_hash |-> bundle_hash,
     evals |-> evals, targeted |-> targeted, pre_fixed |-> pre_fixed,
     pre_mutable |-> pre_mutable, prediction |-> pred]

\* the assignment of l.523-526
AcceptTargeted(fixed, updates, targeted_files) ==
    [f \in DOMAIN fixed \cup {g \in targeted_files : HasKey(updates, g)} |->
        IF f \in targeted_files /\ HasKey(updates, f) THEN Lookup(updates, f) ELSE fixed[f]]

\* a variant of l.526 that leaves every practice mutable
NextMutable_Unfrozen(targeted_files) == FileNames

\* l.526: self._mutable_files = targeted_files
NextMutable(targeted_files) == targeted_files

\* what a call leaves behind: the state it writes and the record of the call
After(fixed, mutable, c, calls, fs, tmp, call) ==
    [fixed_updates |-> fixed, mutable_files |-> mutable, cache |-> c, eval_calls |-> calls,
     bundles |-> fs, scratch |-> tmp, call |-> call]

\* forward l.505-533, after the loop
ForwardScored(fixed, mutable, fs, batch_ids, updates, bundle_hash, loop, targeted_files) ==
    LET feedback_by_pred == build_feedback_map(loop.evals, targeted_files) IN
    IF loop.raised # ""
    THEN After(fixed, mutable, loop.cache, loop.eval_calls, fs, loop.scratch,
               CallRecord("forward", loop.raised, batch_ids, bundle_hash, loop.evals,
                          {}, fixed, mutable, NoPrediction))
    ELSE IF feedback_by_pred.kind = "raise"
    THEN After(fixed, mutable, loop.cache, loop.eval_calls, fs, loop.scratch,
               CallRecord("forward", feedback_by_pred.exc, batch_ids, bundle_hash,
                          loop.evals, targeted_files, fixed, mutable, NoPrediction))
    ELSE After(AcceptTargeted(fixed, updates, targeted_files), NextMutable(targeted_files),
               loop.cache, loop.eval_calls, fs, loop.scratch,
               CallRecord("forward", "", batch_ids, bundle_hash, loop.evals,
                          targeted_files, fixed, mutable,
                          Prediction([sum |-> SumScores(loop.evals), n |-> Len(loop.evals)],
                                     Flatten([i \in DOMAIN loop.evals |->
                                                 loop.evals[i].evaluation.notes]),
                                     feedback_by_pred.val,
                                     build_attribution_diagnostics(loop.evals))))

\* forward l.481-533, given the candidate bundle written to disk
ForwardWritten(fixed, mutable, c, calls, fs, tmp, batch_ids, ev, updates, bundle_hash) ==
    Sole({Sole({ForwardScored(fixed, mutable, fs, batch_ids, updates, bundle_hash, loop,
                              targeted_files) :
                  targeted_files \in {collect_targeted_files(loop.evals)}}) :
            loop \in {EvalLoop(batch_ids, bundle_hash, ev, LoopStart(c, calls, tmp))}})

\* forward l.468-533, given the practice updates
ForwardCandidate(fixed, mutable, c, calls, fs, tmp, batch_ids, ev, updates, candidate) ==
    Sole({ForwardWritten(fixed, mutable, c, calls, written.fs, tmp, batch_ids, ev, updates,
                         bundle_hash) :
            bundle_hash \in {hash_bundle(candidate.practices, candidate.passthrough_files)},
            written \in {write_bundle(fs, candidate, SeedBundle.bundle_id, "gepa",
                                      <<>>, TRUE)}})

\* BundleProgram.forward(run_ids)
forward(instr, fixed, mutable, c, calls, fs, tmp, batch_ids, ev) ==
    IF batch_ids = <<>>
    THEN After(fixed, mutable, c, calls, fs, tmp,
               CallRecord("forward", "", batch_ids, <<>>, <<>>, {}, fixed, mutable,
                          Prediction([sum |-> 0, n |-> 1], <<>>, <<>>, <<>>)))
    ELSE Sole({Sole({ForwardCandidate(fixed, mutable, c, calls, fs, tmp, batch_ids, ev,
                                      updates, candidate) :
                       candidate \in {build_bundle_from_seed(SeedBundle, updates)}}) :
                 updates \in {current_practice_updates(instr, fixed, mutable)}})

\* get_practice_updates() in the current state
get_practice_updates == current_practice_updates(instructions, fixed_updates, mutable_files)

(***************************************************************************)
(* The optimisation session of _run_optimization: construction, the        *)
(* attribution preflight, the forward calls of the search with the drafts  *)
(* the search driver writes into the predictors, and the final scoring.    *)
(***************************************************************************)
RunIds == <<"r1", "r2">>
Batches == {<<>>, <<"r1">>, <<"r2">>, <<"r1", "r2">>}

\* evaluator.json as the external evaluator may leave it for a replay
A_static ==
    JObj(<<KV(K("pass"), JBool(FALSE)), KV(K("score"), JNum(1)),
           KV(K("practice_attribution"),
              JObj(<<KV(K("notes_by_practice"),
                        JObj(<<KV(Mk("static.md", "u", TRUE), JStr(NoteX)),
                               KV(K("unknown"), JStr(NoteX))>>))>>))>>)
A_offending ==
    JObj(<<KV(K("pass"), JBool(FALSE)), KV(K("score"), JNum(1)),
           KV(K("practice_attribution"),
              JObj(<<KV(K("selected_practices"), JList(<<JStr(Simple)>>)),
                     KV(K("offending_practices"), JList(<<JStr(Static)>>))>>))>>)
A_flagsItem ==
    JObj(<<KV(K("pass"), JBool(TRUE)), KV(K("score"), JNum(1)),
           KV(K("flags"), JList(<<JNum(5)>>))>>)

\* notes_by_practice names a practice and gives it an empty list of notes
A_emptyNotes ==
    JObj(<<KV(K("pass"), JBool(FALSE)), KV(K("score"), JNum(1)),
           KV(K("practice_attribution"),
              JObj(<<KV(K("notes_by_practice"),
                        JObj(<<KV(Simple, JList(<<>>))>>))>>))>>)

ReplayArtifacts ==
    {A_full, A_static, A_offending, A_flagsItem, A_scoreNull, A_emptyNotes, Absent}

\* how evaluate_bundle ends when evaluator.json holds art at line 150
evaluate_bundle(art) ==
    LET r == ReadResult(art) IN
    IF r.kind = "return" THEN Ok(r.val) ELSE Raise(r.exc)

Evaluations == {evaluate_bundle(art) : art \in ReplayArtifacts}

RunsOf(batch_ids) == {batch_ids[i] : i \in DOMAIN batch_ids}

\* the instruction texts the search driver may write into a predictor
Drafts(i) == {SeedPractices[i].body, <<"x", " ">>} \cup (IF i = 1 THEN {<<"x">>} ELSE {})

\* the evaluate_bundle variables while no call is being stepped
EvaluatorAtRest ==
    /\ pc = "idle"
    /\ site = 0
    /\ launches = 0
    /\ proc = "none"
    /\ exitcode = 0
    /\ returncode = 0
    /\ artifact = Absent
    /\ written_by = 0
    /\ timeout_seconds = 0
    /\ elapsed = 0
    /\ next_heartbeat = 0
    /\ heartbeats = 0
    /\ history = <<>>
    /\ outcome = NoOutcome

\* BundleProgram.__init__ on the seed bundle, with an empty cache directory
Init ==
    /\ EvaluatorAtRest
    /\ instructions = [i \in DOMAIN SeedPractices |-> SeedPractices[i].body]
    /\ fixed_updates = [f \in FileNames |-> PracticeOf(SeedPractices, f).body]
    /\ mutable_files = FileNames
    /\ cache = <<>>
    /\ eval_calls = <<>>
    /\ bundles = <<>>
    /\ scratch = 0
    /\ active = [bundleId |-> "seed"]
    /\ verdict \in [RunsOf(RunIds) -> Evaluations]
    /\ rounds = 0
    /\ phase = "constructed"
    /\ last = CallRecord("none", "", <<>>, <<>>, <<>>, {}, <<>>, {}, NoPrediction)
    /\ tree = SessionTree

\* snapshot_mutation_state
snapshot_mutation_state(fixed, mutable) == [fixed_updates |-> fixed, mutable_files |-> mutable]

\* a variant of restore_mutation_state that restores nothing
restore_mutation_state_Nothing(after, snapshot) == after

\* restore_mutation_state, on the state forward left
restore_mutation_state(after, snapshot) ==
    [after EXCEPT !.fixed_updates = snapshot.fixed_updates,
                  !.mutable_files = snapshot.mutable_files]

\* a variant of the preflight check that lets every returned prediction pass
PreflightOutcome_NoCheck(call) == IF call.raised # "" THEN "crashed" ELSE "search"

\* how the preflight ends (l.776-781, l.916-920): an exception of forward
\* passes through; no feedback entry raises RuntimeError, which
\* _run_optimization turns into the diagnostic and typer.Exit(code=1)
PreflightOutcome(call) ==
    IF call.raised # "" THEN "crashed"
    ELSE IF DOMAIN call.prediction.feedback_by_pred = {} THEN "aborted"
    ELSE "search"

\* run_attribution_preflight (l.760-781) as _run_optimization calls it (l.915-921)
Preflight(batch_ids) ==
    /\ phase = "constructed"
    /\ batch_ids # <<>>
    /\ \E r \in {restore_mutation_state(
                     forward(instructions, fixed_updates, mutable_files, cache, eval_calls,
                             bundles, scratch, batch_ids, verdict),
                     snapshot_mutation_state(fixed_updates, mutable_files))} :
           /\ fixed_updates' = r.fixed_updates
           /\ mutable_files' = r.mutable_files
           /\ cache' = r.cache
           /\ eval_calls' = r.eval_calls
           /\ bundles' = r.bundles
           /\ scratch' = r.scratch
           /\ last' = [r.call EXCEPT !.kind = "preflight"]
           /\ phase' = PreflightOutcome(r.call)
    /\ UNCHANGED <<instructions, active, verdict, rounds>>
    /\ UNCHANGED <<evars, wvars>>

\* the search driver writes a proposed instruction text into a predictor
EditDraft(i, body) ==
    /\ phase = "search"
    /\ instructions[i] # body
    /\ instructions' = [instructions EXCEPT ![i] = body]
    /\ UNCHANGED <<fixed_updates, mutable_files, cache, eval_calls, bundles, scratch,
                   active, verdict, rounds, phase, last>>
    /\ UNCHANGED <<evars, wvars>>

\* the search driver calls program(run_ids=...); an exception of forward is
\* the driver's to absorb, and the search goes on
Forward(batch_ids) ==
    /\ phase = "search"
    /\ rounds < MaxRounds
    /\ \E r \in {forward(instructions, fixed_updates, mutable_files, cache, eval_calls,
                         bundles, scratch, batch_ids, verdict)} :
           /\ fixed_updates' = r.fixed_updates
           /\ mutable_files' = r.mutable_files
           /\ cache' = r.cache
           /\ eval_calls' = r.eval_calls
           /\ bundles' = r.bundles
           /\ scratch' = r.scratch
           /\ last' = r.call
    /\ rounds' = rounds + 1
    /\ UNCHANGED <<instructions, active, verdict, phase>>
    /\ UNCHANGED <<evars, wvars>>

\* l.969-972: the metadata of the best bundle; split_devset puts the last
\* run in the dev set
FinalMetadata == [trainRunIds |-> <<"r1">>, devRunIds |-> <<"r2">>]

\* update_active_json (bundle_store.py l.35-39): the payload is the bundle id
\* followed by the metadata
update_active_json(bundle_id, metadata) ==
    [k \in {"bundleId"} \cup DOMAIN metadata |->
        IF k = "bundleId" THEN bundle_id ELSE metadata[k]]

\* variant of l.976-1008 that replaces active.json as soon as the bundle is
\* written, whatever becomes of the final scoring
FinalActiveJson_BeforeScoring(previous, written, loop) ==
    update_active_json(written.bundle.bundle_id,
                       [parentBundleId |-> SeedBundle.bundle_id,
                        score |-> [sum |-> SumScores(loop.evals), n |-> Len(loop.evals)]])

\* l.976-1008: active.json after the scoring loop; an exception of
\* evaluate_bundle leaves the function before update_active_json is reached
FinalActiveJson(previous, written, loop) ==
    IF loop.raised # "" THEN previous
    ELSE update_active_json(written.bundle.bundle_id,
                            [parentBundleId |-> SeedBundle.bundle_id,
                             score |-> [sum |-> SumScores(loop.evals),
                                        n |-> Len(loop.evals)]])

\* the final scoring of the best bundle, l.954-1013
FinalScore ==
    /\ phase = "search"
    /\ \E best_bundle \in {build_bundle_from_seed(SeedBundle, get_practice_updates)} :
       \E best_hash \in {hash_bundle(best_bundle.practices, best_bundle.passthrough_files)},
          written \in {write_bundle(bundles, best_bundle, SeedBundle.bundle_id, "gepa",
                                    FinalMetadata, TRUE)} :
       \E loop \in {EvalLoop(RunIds, best_hash, verdict,
                             LoopStart(cache, eval_calls, scratch))} :
           /\ cache' = loop.cache
           /\ eval_calls' = loop.eval_calls
           /\ bundles' = written.fs
           /\ scratch' = loop.scratch
           /\ last' = CallRecord("final", loop.raised, RunIds, best_hash, loop.evals, {},
                                 fixed_updates, mutable_files,
                                 Prediction([sum |-> SumScores(loop.evals),
                                             n |-> Len(loop.evals)], <<>>, <<>>, <<>>))
           /\ phase' = IF loop.raised # "" THEN "crashed" ELSE "done"
           /\ active' = FinalActiveJson(active, written, loop)
    /\ UNCHANGED <<instructions, fixed_updates, mutable_files, verdict, rounds>>
    /\ UNCHANGED <<evars, wvars>>

\* teleprompter.compile (l.941-945) raises: nothing around the call catches
\* the exception, and _run_optimization ends with it
SearchFails ==
    /\ phase = "search"
    /\ phase' = "crashed"
    /\ UNCHANGED <<instructions, fixed_updates, mutable_files, cache, eval_calls, bundles,
                   scratch, active, verdict, rounds, last>>
    /\ UNCHANGED <<evars, wvars>>

Next ==
    \/ \E b \in Batches : Preflight(b)
    \/ \E i \in DOMAIN SeedPractices : \E body \in Drafts(i) : EditDraft(i, body)
    \/ \E b \in Batches : Forward(b)
    \/ SearchFails
    \/ FinalScore

Spec == Init /\ [][Next]_vars

(***************************************************************************)
(* Properties of the cache and of the attribution router (Spec).           *)
(***************************************************************************)
\* the last call was a forward call of the search
AfterForward == last.kind = "forward"

\* the body get_practice_updates returns for a file
EffectiveBody(file_name) == Lookup(get_practice_updates, file_name)

NoNotes(evaluation) == evaluation.practice_attribution.notes_by_practice = <<>>

\* C2: within a session evaluate_bundle is invoked at most once for each
\* (run_id, bundle hash) pair, whatever the first evaluation ended with.
C2_EvaluatedAtMostOnce ==
    \A key \in DOMAIN eval_calls : eval_calls[key] <= 1

\* C9 as stated: for any batch, a forward call that returns leaves
\* fixed_updates[B] unchanged for every practice B outside the targeted set,
\* get_practice_updates then returns that pre-round value for B whatever B's
\* draft holds, and when A is the only targeted practice mutable_files = {A}.
C9_AnyBatchFreezesUntargeted ==
    (AfterForward /\ last.raised = "") =>
        /\ \A B \in FileNames \ last.targeted :
              /\ fixed_updates[B] = last.pre_fixed[B]
              /\ EffectiveBody(B) = last.pre_fixed[B]
        /\ \A A \in FileNames : last.targeted = {A} => mutable_files = {A}

\* C9, amended: a forward call on a non-empty batch that returns leaves
\* fixed_updates[B] unchanged for every untargeted B, get_practice_updates
\* then returns that pre-round value whatever B's draft holds, and
\* mutable_files = {A} when A is the only targeted practice; a forward call
\* on an empty batch, or one that raises, changes neither fixed_updates nor
\* mutable_files, so nothing is frozen by it.
C9_NonEmptyBatchFreezesUntargeted ==
    AfterForward =>
        IF last.batch # <<>> /\ last.raised = ""
        THEN /\ \A B \in FileNames \ last.targeted :
                   /\ fixed_updates[B] = last.pre_fixed[B]
                   /\ EffectiveBody(B) = last.pre_fixed[B]
             /\ \A A \in FileNames : last.targeted = {A} => mutable_files = {A}
        ELSE /\ fixed_updates = last.pre_fixed
             /\ mutable_files = last.pre_mutable

\* a round on a non-empty batch targeted simple.md alone while the draft of
\* static.md had been edited away from its frozen value
C9_Witness ==
    /\ AfterForward
    /\ last.batch # <<>>
    /\ last.raised = ""
    /\ last.targeted = {SimpleMd}
    /\ StaticMd \in last.pre_mutable
    /\ instructions[2] # last.pre_fixed[StaticMd]
    /\ mutable_files = {SimpleMd}

\* C10: an evaluation with an empty notes_by_practice contributes no
\* targeted file whatever its offending and selected practices hold, and a
\* batch made only of such evaluations ends with mutable_files empty,
\* feedback_by_pred empty and every effective body at its last accepted value.
C10_NoNotesFreezesAll ==
    (/\ AfterForward
     /\ last.batch # <<>>
     /\ Len(last.evals) = Len(last.batch)
     /\ \A i \in DOMAIN last.evals : NoNotes(last.evals[i].evaluation))
    => /\ \A i \in DOMAIN last.evals :
             extract_targeted_files(last.evals[i].evaluation) = {}
       /\ mutable_files = {}
       /\ DOMAIN last.prediction.feedback_by_pred = {}
       /\ fixed_updates = last.pre_fixed
       /\ \A f \in FileNames : EffectiveBody(f) = last.pre_fixed[f]


\* the attribution keys of an evaluation that name no practice of the seed
UnresolvedKeys(evaluation) ==
    {evaluation.practice_attribution.notes_by_practice[j].k :
        j \in {k \in DOMAIN evaluation.practice_attribution.notes_by_practice :
                  ~resolve_practice_file(
                      evaluation.practice_attribution.notes_by_practice[k].k).found}}

\* C11: in every reachable state of a BundleProgram mutable_files is a
\* subset of the seed bundle's practice file names.
C11_MutableWithinSeed ==
    mutable_files \subseteq FileNames

\* a forward call met an attribution key that names no seed practice next to
\* one that names static.md, and narrowed mutable_files to static.md
C11_Witness ==
    /\ AfterForward
    /\ last.raised = ""
    /\ \E i \in DOMAIN last.evals : UnresolvedKeys(last.evals[i].evaluation) # {}
    /\ mutable_files = {StaticMd}


\* the names a practice answers to: its logical name, its file name and the
\* stem of its file name
AliasesOf(file_name) ==
    {PracticeOf(SeedPractices, file_name).name, file_name, Stem(file_name)}

\* the seed files named by the notes_by_practice keys of an evaluation
Attributed(evaluation) ==
    {f \in FileNames :
        \E j \in DOMAIN evaluation.practice_attribution.notes_by_practice :
        \E a \in AliasesOf(f) :
            AliasKey(evaluation.practice_attribution.notes_by_practice[j].k) = AliasKey(a)}

\* every run of the last batch has its evaluation
AllEvaluated == Len(last.evals) = Len(last.batch)

\* C12: after forward on a non-empty batch mutable_files is the union, over
\* the runs of the batch, of the files named by the run's notes_by_practice
\* keys; a run with no notes or only unresolvable names contributes nothing
\* and does not abort the batch.
C12_MutableIsUnionOfTargets ==
    (AfterForward /\ last.batch # <<>> /\ AllEvaluated)
    => /\ last.raised = ""
       /\ mutable_files = UNION {Attributed(last.evals[i].evaluation) : i \in DOMAIN last.evals}


\* the last call ran forward (in the search or in the preflight) and forward
\* returned its Prediction
ForwardReturned == last.kind \in {"forward", "preflight"} /\ last.raised = ""

\* the notes a run's evaluation holds for a file, each with the run's id
PrefixedNotes(run, file_name) ==
    LET nb == run.evaluation.practice_attribution.notes_by_practice IN
    UNION {{[run |-> run.run_id, note |-> nb[j].v.v[n]] : n \in DOMAIN nb[j].v.v} :
              j \in {k \in DOMAIN nb :
                        \E a \in AliasesOf(file_name) : AliasKey(nb[k].k) = AliasKey(a)}}

SeqRange(xs) == {xs[i] : i \in DOMAIN xs}

\* C13: the feedback map returned by forward has an entry for a practice's
\* predictor exactly when the practice's file is in the batch's targeted set,
\* and the entry of a targeted practice holds each of its practice notes from
\* every run of the batch, prefixed with the run's id.
C13_FeedbackOnlyForTargeted ==
    ForwardReturned =>
        \A i \in DOMAIN SeedPractices :
            /\ PredNames[i] \in DOMAIN last.prediction.feedback_by_pred
                   <=> \E r \in DOMAIN last.evals :
                           SeedPractices[i].file_name \in Attributed(last.evals[r].evaluation)
            /\ PredNames[i] \in DOMAIN last.prediction.feedback_by_pred
                   => \A r \in DOMAIN last.evals :
                          PrefixedNotes(last.evals[r], SeedPractices[i].file_name)
                              \subseteq SeqRange(last.prediction.feedback_by_pred[PredNames[i]].practice_notes)

\* a batch of two runs, each with a note for simple.md and none for
\* static.md: one entry, holding a note of each run
C13_Witness ==
    /\ ForwardReturned
    /\ DOMAIN last.prediction.feedback_by_pred = {PredNames[1]}
    /\ Len(last.evals) = 2
    /\ \A r \in DOMAIN last.evals : PrefixedNotes(last.evals[r], SimpleMd) # {}
    /\ \E x, y \in SeqRange(last.prediction.feedback_by_pred[PredNames[1]].practice_notes) :
          x.run = "r1" /\ y.run = "r2"


\* the bundles written by the final scoring carry its metadata
BestBundleWritten ==
    \E id \in DOMAIN bundles : "trainRunIds" \in DOMAIN bundles[id].meta

\* the preflight returned a prediction without any feedback entry
PreflightWithoutFeedback ==
    /\ last.kind = "preflight"
    /\ last.raised = ""
    /\ DOMAIN last.prediction.feedback_by_pred = {}

\* C14: a preflight that produces no feedback entry aborts the optimization
\* with the per-run diagnostic; the search is then never started, no best
\* bundle is written and active.json is not updated; the search starts only
\* after a preflight that produced a feedback entry.
C14_PreflightGuardsSearch ==
    /\ [](PreflightWithoutFeedback => phase = "aborted")
    /\ [](phase = "aborted" =>
              /\ PreflightWithoutFeedback
              /\ Len(last.prediction.attribution_by_run) = Len(last.batch)
              /\ rounds = 0
              /\ ~BestBundleWritten
              /\ active = [bundleId |-> "seed"])
    /\ [][phase = "aborted" => UNCHANGED vars]_vars
    /\ [][(phase # "search" /\ phase' = "search")
             => /\ last'.kind = "preflight"
                /\ DOMAIN last'.prediction.feedback_by_pred # {}]_vars
    /\ [][(rounds' # rounds \/ active' # active \/ instructions' # instructions)
             => phase = "search"]_vars

\* the preflight of a two-run batch found offending practices but no notes
\* and aborted
C14_Witness ==
    /\ phase = "aborted"
    /\ Len(last.batch) = 2
    /\ \E i \in DOMAIN last.evals :
          last.evals[i].evaluation.practice_attribution.offending_practices # <<>>

\* C15: after run_attribution_preflight, however it ended, fixed_updates and
\* mutable_files have the values they had just before it.
C15_PreflightRestoresState ==
    last.kind = "preflight" =>
        /\ fixed_updates = last.pre_fixed
        /\ mutable_files = last.pre_mutable

\* the forward call of the preflight targeted simple.md alone, and both
\* practices are mutable after the preflight
C15_Witness ==
    /\ last.kind = "preflight"
    /\ last.raised = ""
    /\ last.targeted = {SimpleMd}
    /\ mutable_files = FileNames


(***************************************************************************)
(* The bundle store on its own (bundle_store.py): bundles derived from the *)
(* seed with edit maps, hashed and written under bundles/.  SpecStore uses *)
(* bundles for the directories, rounds for the number of write_bundle      *)
(* calls and last for the record of the last operation.                    *)
(***************************************************************************)
YMd == K("y.md")
ZMd == K("z.md")

\* the (file, new body) pairs edit maps are made of: bodies whose
\* concatenations coincide, a body with trailing white space, and two files
\* the seed does not have
EditPairs ==
    {KV(SimpleMd, <<"a">>), KV(SimpleMd, <<"a", "b">>), KV(SimpleMd, <<"a", " ">>),
     KV(StaticMd, <<"c">>), KV(StaticMd, <<"b", "c">>),
     KV(YMd, <<"n">>), KV(ZMd, <<"m">>)}

\* an edit map has one body per file
IsEditMap(pairs) == \A p, q \in pairs : p.k = q.k => p = q

Reverse(xs) == [i \in DOMAIN xs |-> xs[Len(xs) + 1 - i]]

\* the dict holding the pairs, inserted in sorted order of file name
AsDict(pairs) ==
    LET names == SortByName({p.k : p \in pairs}) IN
    [i \in DOMAIN names |-> CHOOSE p \in pairs : p.k = names[i]]

\* edit maps as dicts, in both insertion orders
EditMaps ==
    UNION {{AsDict(pairs), Reverse(AsDict(pairs))} :
              pairs \in {ps \in SUBSET EditPairs : IsEditMap(ps)}}

\* the edit maps write_bundle is exercised with
WrittenMaps ==
    {<<>>, <<KV(SimpleMd, <<"a">>)>>, <<KV(SimpleMd, <<"a", " ">>)>>,
     <<KV(SimpleMd, <<"a", "b">>), KV(StaticMd, <<"c">>)>>,
     <<KV(SimpleMd, <<"a">>), KV(StaticMd, <<"b", "c">>)>>}

Generations == {"gepa", "1"}
ParentIds == {"seed", "gengepa_0"}
Metadatas == {<<>>, FinalMetadata}

InitStore ==
    /\ EvaluatorAtRest
    /\ instructions = <<>>
    /\ fixed_updates = <<>>
    /\ mutable_files = {}
    /\ cache = <<>>
    /\ eval_calls = <<>>
    /\ bundles = <<>>
    /\ scratch = 0
    /\ active = Absent
    /\ verdict = <<>>
    /\ rounds = 0
    /\ phase = "none"
    /\ last = [kind |-> "none"]
    /\ tree = SessionTree

\* two bundles are derived from the seed and hashed; the id of each is the
\* one write_bundle gives it in an empty bundles/ directory, the two calls
\* differing in parent id and metadata
Derive(U1, U2, generation) ==
    /\ last.kind = "none"
    /\ \E b1 \in {build_bundle_from_seed(SeedBundle, U1)},
          b2 \in {build_bundle_from_seed(SeedBundle, U2)} :
          last' = [kind |-> "derive", U1 |-> U1, U2 |-> U2, generation |-> generation,
                   bundle1 |-> b1, bundle2 |-> b2,
                   seed_after |-> SeedAfterBuild(SeedBundle, U1),
                   hash1 |-> hash_bundle(b1.practices, b1.passthrough_files),
                   hash2 |-> hash_bundle(b2.practices, b2.passthrough_files),
                   id1 |-> write_bundle(<<>>, b1, "seed", generation, <<>>, TRUE)
                               .bundle.bundle_id,
                   id2 |-> write_bundle(<<>>, b2, "gengepa_0", generation, FinalMetadata,
                                        FALSE).bundle.bundle_id]
    /\ UNCHANGED <<instructions, fixed_updates, mutable_files, cache, eval_calls, bundles,
                   scratch, active, verdict, rounds, phase>>
    /\ UNCHANGED <<evars, wvars>>

\* one call of write_bundle on the bundle derived from the seed with U
Write(U, parent_id, generation, metadata, exist_ok) ==
    /\ rounds < MaxRounds
    /\ \E b \in {build_bundle_from_seed(SeedBundle, U)} :
       \E r \in {write_bundle(bundles, b, parent_id, generation, metadata, exist_ok)} :
          /\ bundles' = r.fs
          /\ last' = [kind |-> "write", U |-> U, bundle |-> b, parent_id |-> parent_id,
                      generation |-> generation, metadata |-> metadata,
                      exist_ok |-> exist_ok, pre_fs |-> bundles,
                      content_hash |-> hash_bundle(b.practices, b.passthrough_files),
                      raised |-> IF r.kind = "raise" THEN r.exc ELSE "",
                      returned_id |-> IF r.kind = "ok" THEN r.bundle.bundle_id ELSE "",
                      returned_meta |-> IF r.kind = "ok" THEN r.bundle.meta ELSE <<>>]
    /\ rounds' = rounds + 1
    /\ UNCHANGED <<instructions, fixed_updates, mutable_files, cache, eval_calls, scratch,
                   active, verdict, phase>>
    /\ UNCHANGED <<evars, wvars>>

NextStore ==
    \/ \E U1, U2 \in EditMaps : \E g \in Generations : Derive(U1, U2, g)
    \/ \E U \in WrittenMaps, p \in ParentIds, m \in Metadatas, ok \in BOOLEAN :
          Write(U, p, "gepa", m, ok)

SpecStore == InitStore /\ [][NextStore]_vars


(***************************************************************************)
(* Properties of the bundle store, checked under SpecStore.                *)
(***************************************************************************)
Derived == last.kind = "derive"

\* the two edit maps give some file different bodies
DifferInBody(U1, U2) ==
    \E f \in DictKeys(U1) \cap DictKeys(U2) : Lookup(U1, f) # Lookup(U2, f)

\* C16: two edit maps that differ in at least one body give bundles derived
\* from the seed whose content hashes differ, the digest being injective.
C16_DifferentBodiesDifferentHash ==
    (Derived /\ DifferInBody(last.U1, last.U2)) => last.hash1 # last.hash2

\* C17: two edit maps that are equal as sets of (file, body) pairs, in any
\* insertion order, give equal content hashes and, for the same generation,
\* equal bundle ids, whatever the parent id and the metadata of the writes.
C17_EqualMapsEqualHashAndId ==
    (Derived /\ SeqRange(last.U1) = SeqRange(last.U2))
        => (last.hash1 = last.hash2 /\ last.id1 = last.id2)

\* the same pairs inserted in two orders, two of them files the seed lacks
C17_Witness ==
    /\ Derived
    /\ SeqRange(last.U1) = SeqRange(last.U2)
    /\ last.U1 # last.U2
    /\ {YMd, ZMd} \subseteq DictKeys(last.U1)
    /\ last.bundle1.practices # last.bundle2.practices
    /\ last.hash1 = last.hash2
    /\ last.id1 = last.id2


Wrote == last.kind = "write"

\* the id write_bundle derives for the bundle of the last call
DerivedId == BundleId(last.generation, last.content_hash)

\* the directory of the derived id existed before the last call
DirectoryExisted == Wrote /\ DerivedId \in DOMAIN last.pre_fs

\* an earlier call wrote this very content under this generation
SameContentWritten ==
    /\ DirectoryExisted
    /\ last.pre_fs[DerivedId].files = BundleFiles(<<>>, DerivedId, last.bundle)

\* C18: a second write_bundle call with identical content and generation and
\* exist_ok = true does not raise, returns the id of the first call, creates
\* no directory or file, and leaves the practice and passthrough files as the
\* first call wrote them.
C18_SecondWriteIdempotent ==
    (SameContentWritten /\ last.exist_ok)
        => /\ last.raised = ""
           /\ last.returned_id = DerivedId
           /\ DOMAIN bundles = DOMAIN last.pre_fs
           /\ \A d \in DOMAIN bundles : bundles[d].files = last.pre_fs[d].files

C18_Witness ==
    /\ SameContentWritten
    /\ last.exist_ok
    /\ rounds >= 2
    /\ last.raised = ""
    /\ last.returned_id \in DOMAIN last.pre_fs

\* C19: write_bundle with exist_ok = false on a bundle id whose directory
\* exists raises FileExistsError and leaves the files and the metadata record
\* of the existing bundle unchanged.
C19_ExistingIdRaises ==
    (DirectoryExisted /\ ~last.exist_ok)
        => (last.raised = "FileExistsError" /\ bundles = last.pre_fs)

C19_Witness ==
    /\ DirectoryExisted
    /\ ~last.exist_ok
    /\ last.raised = "FileExistsError"
    /\ bundles = last.pre_fs
    /\ bundles # <<>>

\* C20: after every successful write_bundle call, also one that found the
\* directory in place, meta.json holds the id, parent id, generation, content
\* hash and metadata of that call.
C20_MetaOfLatestCall ==
    (Wrote /\ last.raised = "")
        => /\ last.returned_id \in DOMAIN bundles
           /\ \E meta \in {bundles[last.returned_id].meta} :
                 /\ meta["id"] = last.returned_id
                 /\ meta["parent"] = last.parent_id
                 /\ meta["generation"] = last.generation
                 /\ meta["hash"] = last.content_hash
                 /\ \A k \in DOMAIN last.metadata : meta[k] = last.metadata[k]

\* the directory existed and held the record of a call with another parent
\* and other metadata
C20_Witness ==
    /\ DirectoryExisted
    /\ last.raised = ""
    /\ last.pre_fs[DerivedId].meta["parent"] # last.parent_id
    /\ DOMAIN last.pre_fs[DerivedId].meta # DOMAIN bundles[DerivedId].meta
    /\ bundles[DerivedId].meta["parent"] = last.parent_id


\* C21: after write_bundle returns, on the fresh path and on the path where
\* the directory existed, the directory of the returned id holds the rendering
\* of every practice of the bundle and every passthrough file of the bundle.
C21_DirectoryHoldsWrittenBundle ==
    (Wrote /\ last.raised = "")
        => /\ last.returned_id \in DOMAIN bundles
           /\ bundles[last.returned_id].files
                 = BundleFiles(<<>>, last.returned_id, last.bundle)


\* every seed practice is in the derived bundle with its front matter and
\* name and with the body Body(p) gives it
SeedPracticesHave(derived, Body(_)) ==
    \A i \in DOMAIN SeedBundle.practices :
        \E p \in {SeedBundle.practices[i]} :
            /\ p.file_name \in {derived.practices[j].file_name : j \in DOMAIN derived.practices}
            /\ \E q \in {PracticeOf(derived.practices, p.file_name)} :
                  /\ q.frontmatter = p.frontmatter
                  /\ q.name = p.name
                  /\ q.body = Body(p)

GivenBody(p) == DictGet(last.U1, p.file_name, p.body)
GivenBodyStripped(p) == StripBody(DictGet(last.U1, p.file_name, p.body))

\* C22 as stated: build_bundle_from_seed leaves the seed as it was; every
\* seed practice keeps front matter and name and has the body given in
\* updates, or its seed body; the passthrough files are the seed's.
C22_SeedPracticeHasGivenBody ==
    Derived => /\ last.seed_after = SeedBundle
               /\ SeedPracticesHave(last.bundle1, GivenBody)
               /\ last.bundle1.passthrough_files = SeedBundle.passthrough_files

\* C22: build_bundle_from_seed leaves the seed as it was; every seed practice
\* keeps front matter and name and has the body given in updates with the
\* white space at its ends removed, or its seed body likewise stripped; the
\* passthrough files are the seed's.
C22_SeedPracticeHasStrippedBody ==
    Derived => /\ last.seed_after = SeedBundle
               /\ SeedPracticesHave(last.bundle1, GivenBodyStripped)
               /\ last.bundle1.passthrough_files = SeedBundle.passthrough_files

\* one seed file updated with a body that ends in white space, the other not
\* in the updates
C22_Witness ==
    /\ Derived
    /\ HasKey(last.U1, SimpleMd)
    /\ Lookup(last.U1, SimpleMd) = <<"a", " ">>
    /\ ~HasKey(last.U1, StaticMd)
    /\ PracticeOf(last.bundle1.practices, SimpleMd).body = <<"a">>
    /\ PracticeOf(last.bundle1.practices, StaticMd).body = <<"s">>


(***************************************************************************)
(* The evaluation cache on its own (cache.py): entries are set, read, and  *)
(* damaged from outside.  SpecCache uses cache for the files under         *)
(* cache/evals and last for the record of the last operation.              *)
(***************************************************************************)
\* the results evaluate_bundle returns for the artifacts of the model
CachedResults ==
    {e.val : e \in {x \in Evaluations \cup {evaluate_bundle(A_noteStr)} : x.kind = "ok"}}

SeedHash == hash_bundle(SeedBundle.practices, SeedBundle.passthrough_files)
EditedHash ==
    Sole({hash_bundle(b.practices, b.passthrough_files) :
             b \in {build_bundle_from_seed(SeedBundle, <<KV(SimpleMd, <<"a">>)>>)}})

\* the (run id, bundle hash) pairs the cache is used with
CacheKeys == {<<"r1", SeedHash>>, <<"r1", EditedHash>>, <<"r2", SeedHash>>}

\* contents of an entry's file that set did not write: text that is not JSON,
\* a JSON list, an evaluation that is a number, a score that is no number, and
\* an empty object
E_evalNum == JObj(<<KV(K("evaluation"), JNum(5))>>)
E_scoreStr == JObj(<<KV(K("evaluation"), A_scoreStr)>>)
CorruptEntries == {NotJson, A_list, E_evalNum, E_scoreStr, A_empty}

InitCache == InitStore

\* EvaluationCache.set
CacheSet(run_id, bundle_hash, evaluation) ==
    /\ cache' = cache_set(cache, run_id, bundle_hash, evaluation)
    /\ last' = [kind |-> "set", run_id |-> run_id, bundle_hash |-> bundle_hash,
                evaluation |-> evaluation]
    /\ UNCHANGED <<instructions, fixed_updates, mutable_files, eval_calls, bundles, scratch,
                   active, verdict, rounds, phase>>
    /\ UNCHANGED <<evars, wvars>>

\* the file of an entry is damaged or written by something else than set
CorruptEntry(run_id, bundle_hash, text) ==
    /\ cache' = Put(cache, CacheKey(run_id, bundle_hash), text)
    /\ last' = [kind |-> "corrupt", run_id |-> run_id, bundle_hash |-> bundle_hash,
                text |-> text]
    /\ UNCHANGED <<instructions, fixed_updates, mutable_files, eval_calls, bundles, scratch,
                   active, verdict, rounds, phase>>
    /\ UNCHANGED <<evars, wvars>>

\* EvaluationCache.get
CacheGet(run_id, bundle_hash) ==
    /\ last' = [kind |-> "get", run_id |-> run_id, bundle_hash |-> bundle_hash,
                entry |-> IF CacheKey(run_id, bundle_hash) \in DOMAIN cache
                          THEN cache[CacheKey(run_id, bundle_hash)] ELSE Absent,
                result |-> cache_get(cache, run_id, bundle_hash)]
    /\ UNCHANGED <<instructions, fixed_updates, mutable_files, cache, eval_calls, bundles,
                   scratch, active, verdict, rounds, phase>>
    /\ UNCHANGED <<evars, wvars>>

NextCache ==
    \/ \E k \in CacheKeys, r \in CachedResults : CacheSet(k[1], k[2], r)
    \/ \E k \in CacheKeys, text \in CorruptEntries : CorruptEntry(k[1], k[2], text)
    \/ \E k \in CacheKeys : CacheGet(k[1], k[2])

SpecCache == InitCache /\ [][NextCache]_vars

(***************************************************************************)
(* Properties of the evaluation cache, checked under SpecCache.            *)
(***************************************************************************)
GotEntry == last.kind = "get"

\* the file read by the last get is the one set wrote for evaluation r
EntrySetFor(r) == GotEntry /\ last.entry = cache_payload(last.run_id, last.bundle_hash, r)

SameFields(a, b) ==
    /\ a.passed = b.passed
    /\ a.score = b.score
    /\ a.flags = b.flags
    /\ a.notes = b.notes
    /\ a.practice_attribution = b.practice_attribution

\* C23: get(run, hash) on the entry written by set(run, hash, r) returns a
\* result whose passed, score, flags, notes and practice attribution are
\* those of r.
C23_CacheRoundTrip ==
    \A r \in CachedResults :
        EntrySetFor(r) => /\ last.result.kind = "ok"
                          /\ last.result.val # JNull
                          /\ SameFields(last.result.val, r)

\* a result with flags, notes and notes of a practice came back
C23_Witness ==
    /\ \E r \in CachedResults :
          /\ EntrySetFor(r)
          /\ r.flags # <<>>
          /\ r.notes # <<>>
          /\ r.practice_attribution.notes_by_practice # <<>>
    /\ last.result.kind = "ok"
    /\ last.result.val.practice_attribution.notes_by_practice # <<>>

\* C24: get returns None, without raising, when the entry is absent and when
\* its file is corrupt.
C24_AbsentOrCorruptIsMiss ==
    (GotEntry /\ last.entry \in CorruptEntries \cup {Absent}) => last.result = Ok(JNull)


(***************************************************************************)
(* Further properties of the session, checked under Spec.                  *)
(***************************************************************************)
\* C28: once the evaluations of a call are over, whether they returned or
\* raised, no replay task directory made by prepare_task_dir is left.
C28_ScratchRemoved == scratch = 0


(***************************************************************************)
(* The promptopt root on its own: ensure_active_bundle (bundle_store.py),  *)
(* the clean command and the start of _run_optimization (run_gepa.py).     *)
(* SpecRoot uses active for active.json (Absent when there is no file),    *)
(* bundles for the entries of bundles/, cache for the entries of           *)
(* cache/evals and tree for the other directories.                         *)
(***************************************************************************)
\* an entry of bundles/ that write_bundle did not make
Named(name) == [name |-> name]
Seed == Named("seed")

\* contents of active.json
ActiveSeed == [bundleId |-> "seed"]
ActiveFiles ==
    {Absent, ActiveSeed, [bundle_id |-> "manual"], [bundleId |-> "", bundle_id |-> "seed"],
     [updatedAt |-> "x"], [notjson |-> TRUE], [list |-> TRUE]}

\* read_active_bundle_id, on a file that exists
read_active_bundle_id(content) ==
    IF "notjson" \in DOMAIN content THEN Raise("ValueError")
    ELSE IF "list" \in DOMAIN content THEN Raise("AttributeError")
    ELSE IF "bundleId" \in DOMAIN content /\ content.bundleId # "" THEN Ok(content.bundleId)
    ELSE IF "bundle_id" \in DOMAIN content /\ content.bundle_id # ""
    THEN Ok(content.bundle_id)
    ELSE Raise("ValueError")

\* variant of _validate_root_sources that does not look at the agent files
validate_root_sources_NoAgentFiles(t) ==
    IF ~t.practices_dir THEN Raise("FileNotFoundError")
    ELSE IF t.practices_md = {} THEN Raise("ValueError")
    ELSE IF ~t.agents_dir THEN Raise("FileNotFoundError")
    ELSE Ok(JNull)

\* _validate_root_sources
validate_root_sources(t) ==
    IF ~t.practices_dir THEN Raise("FileNotFoundError")
    ELSE IF t.practices_md = {} THEN Raise("ValueError")
    ELSE IF ~t.agents_dir THEN Raise("FileNotFoundError")
    ELSE IF ~(RequiredAgents \subseteq t.agents) THEN Raise("FileNotFoundError")
    ELSE Ok(JNull)

\* what the two copytree calls put under bundles/<seed>: the files of the
\* sources, each with the revision it has there
SeedDirectory(t) ==
    [practices |-> t.practices_md, agents |-> t.agents,
     revised |-> t.revised \cap (t.practices_md \cup t.agents)]

\* the promptopt root as the operations below see and leave it
Root(active_json, bundle_dirs, evals, t) ==
    [active |-> active_json, bundles |-> bundle_dirs, cache |-> evals, tree |-> t]

\* a variant of _rebuild_seed_bundle without the rmtree of l.66-67, copying
\* over the directory that is there
rebuild_seed_bundle_NoRmtree(root) ==
    LET valid == validate_root_sources(root.tree)
        copy == SeedDirectory(root.tree)
        old == root.bundles[Seed] IN
    IF valid.kind = "raise" THEN valid
    ELSE IF Seed \notin DOMAIN root.bundles THEN Ok([root EXCEPT !.bundles = Put(@, Seed, copy)])
    ELSE Ok([root EXCEPT !.bundles =
                Put(@, Seed, [copy EXCEPT !.practices = @ \cup old.practices,
                                          !.agents = @ \cup old.agents])])

\* _rebuild_seed_bundle: the root it leaves, or the exception
rebuild_seed_bundle(root) ==
    LET valid == validate_root_sources(root.tree) IN
    IF valid.kind = "raise" THEN valid
    ELSE Ok([root EXCEPT !.bundles = Put(@, Seed, SeedDirectory(root.tree))])

\* variant of l.56 that takes active.json to be missing
ActiveJsonExists_Never(root) == FALSE

\* l.56: active_json_path.exists()
ActiveJsonExists(root) == root.active # Absent

\* ensure_active_bundle(promptopt_root): the id returned and the root left
ensure_active_bundle(root) ==
    IF ActiveJsonExists(root)
    THEN LET id == read_active_bundle_id(root.active) IN
         IF id.kind = "raise" THEN [kind |-> "raise", exc |-> id.exc, root |-> root]
         ELSE [kind |-> "ok", id |-> id.val, root |-> root]
    ELSE LET rebuilt == rebuild_seed_bundle(root) IN
         IF rebuilt.kind = "raise" THEN [kind |-> "raise", exc |-> rebuilt.exc, root |-> root]
         ELSE [kind |-> "ok", id |-> "seed", root |-> [rebuilt.val EXCEPT !.active = ActiveSeed]]

\* variant of the glob of l.1049 that takes every entry of bundles/
MatchesGenGlob_Everything(id) == TRUE

\* bundles_root.glob("gen*"), on the entry names of the model: write_bundle
\* names its directories gen<generation>_<hash>
MatchesGenGlob(id) == IF "name" \in DOMAIN id THEN id.name \in {"gen001", "gen-file.txt"} ELSE TRUE

\* _run_clean(promptopt_root)
run_clean(root) ==
    [active |-> Absent,
     bundles |-> [id \in {d \in DOMAIN root.bundles : ~MatchesGenGlob(d)} |-> root.bundles[id]],
     cache |-> <<>>,
     tree |-> [root.tree EXCEPT !.logs = {}, !.evals_dir = @ \/ root.cache # <<>>]]


\* a candidate bundle directory made by write_bundle
CandidateId == BundleId("gepa", SeedHash)
CandidateDirectory == write_bundle(<<>>, SeedBundle, "seed", "gepa", <<>>, TRUE).fs[CandidateId]

\* a seed directory of an earlier bootstrap, and entries made by hand
OldSeedDirectory == [practices |-> {"old.md"}, agents |-> RequiredAgents]
ManualDirectory == [practices |-> {"notes.txt"}, agents |-> {}, nested |-> {"gen_nested"}]
PlainEntry == [practices |-> {}, agents |-> {}]

\* bundles/ before the operations: empty, with a seed directory, or with
\* candidate directories and entries made by hand as well
BundleDirs ==
    {<<>>,
     [id \in {Seed} |-> OldSeedDirectory],
     [id \in {Seed, Named("manual"), Named("gen001"), Named("gen-file.txt"), CandidateId} |->
         CASE id = Seed -> OldSeedDirectory
           [] id = Named("manual") -> ManualDirectory
           [] id = CandidateId -> CandidateDirectory
           [] OTHER -> PlainEntry]}

\* cache/evals before the operations: no entry, or one
EvalEntries == {<<>>, cache_set(<<>>, "r1", SeedHash, Degraded)}

\* the root sources, logs/ and cache/ before the operations
Trees ==
    {Tree(p[1], p[2], a[1], a[2], l[1], l[2], c[1], c[2]) :
        p \in {<<FALSE, {}>>, <<TRUE, {}>>, <<TRUE, {"simple.md", "static.md"}>>},
        a \in {<<FALSE, {}>>, <<TRUE, RequiredAgents>>, <<TRUE, RequiredAgents \ {"lead.md"}>>,
               <<TRUE, RequiredAgents \ {"tools.md"}>>},
        l \in {<<FALSE, {}>>, <<TRUE, {}>>, <<TRUE, {"trace.log", "nested"}>>},
        c \in {<<{}, FALSE>>, <<{"index.json"}, TRUE>>}}

InitRoot ==
    /\ EvaluatorAtRest
    /\ instructions = <<>>
    /\ fixed_updates = <<>>
    /\ mutable_files = {}
    /\ cache \in EvalEntries
    /\ eval_calls = <<>>
    /\ bundles \in BundleDirs
    /\ scratch = 0
    /\ active \in ActiveFiles
    /\ verdict = [run_id \in RunsOf(RunIds) |-> evaluate_bundle(A_full)]
    /\ rounds = 0
    /\ phase = "none"
    /\ last = [kind |-> "none"]
    /\ tree \in Trees

\* a call of ensure_active_bundle(promptopt_root)
EnsureActive ==
    /\ phase = "none"
    /\ \E before \in {Root(active, bundles, cache, tree)} :
       \E r \in {ensure_active_bundle(before)} :
          /\ active' = r.root.active
          /\ bundles' = r.root.bundles
          /\ last' = [kind |-> "ensure", before |-> before,
                      raised |-> IF r.kind = "raise" THEN r.exc ELSE "",
                      id |-> IF r.kind = "ok" THEN r.id ELSE ""]
    /\ UNCHANGED <<instructions, fixed_updates, mutable_files, cache, eval_calls, scratch,
                   verdict, rounds, phase>>
    /\ UNCHANGED <<evars, wvars>>

\* the clean command
Clean ==
    /\ phase = "none"
    /\ \E before \in {Root(active, bundles, cache, tree)} :
       \E after \in {run_clean(before)} :
          /\ active' = after.active
          /\ bundles' = after.bundles
          /\ cache' = after.cache
          /\ tree' = after.tree
          /\ last' = [kind |-> "clean", before |-> before]
    /\ UNCHANGED <<instructions, fixed_updates, mutable_files, eval_calls, scratch, verdict,
                   rounds, phase>>
    /\ UNCHANGED evars


\* the train split file: absent, or the run ids on its lines
SplitFile(exists, run_ids) == [exists |-> exists, run_ids |-> run_ids]
ElevenRunIds == [i \in 1..(MAX_SPLIT_RUN_IDS + 1) |-> "r1"]
SplitFiles ==
    {SplitFile(FALSE, <<>>), SplitFile(TRUE, <<>>), SplitFile(TRUE, RunIds),
     SplitFile(TRUE, ElevenRunIds)}

\* variant of l.858-862 without the limit on the number of run ids
read_train_split_NoLimit(split) ==
    IF ~split.exists THEN Raise("FileNotFoundError")
    ELSE IF split.run_ids = <<>> THEN Raise("ValueError")
    ELSE Ok(split.run_ids)

\* l.858-862: load_split and the checks on its result
read_train_split(split) ==
    IF ~split.exists THEN Raise("FileNotFoundError")
    ELSE IF split.run_ids = <<>> THEN Raise("ValueError")
    ELSE IF Len(split.run_ids) > MAX_SPLIT_RUN_IDS THEN Raise("ValueError")
    ELSE Ok(split.run_ids)

\* l.846-848: the directories _run_optimization makes
MakeDirectories(root) == [root EXCEPT !.tree.logs_dir = TRUE]

\* load_bundle(bundles_root / active_bundle_id), as far as it can raise
load_bundle(root, bundle_id) ==
    IF Named(bundle_id) \in DOMAIN root.bundles THEN Ok(SeedBundle)
    ELSE Raise("FileNotFoundError")

\* _run_optimization up to the construction of the program (l.832-913):
\* the exception it ends with, if any, and the root it leaves
start_optimization(has_cli_command, split, root) ==
    IF ~has_cli_command THEN [kind |-> "raise", exc |-> "BadParameter", root |-> root]
    ELSE LET made == MakeDirectories(root)
             run_ids == read_train_split(split) IN
         IF run_ids.kind = "raise" THEN [kind |-> "raise", exc |-> run_ids.exc, root |-> made]
         ELSE LET ensured == ensure_active_bundle(made) IN
              IF ensured.kind = "raise" THEN ensured
              ELSE LET seed == load_bundle(ensured.root, ensured.id) IN
                   IF seed.kind = "raise"
                   THEN [kind |-> "raise", exc |-> seed.exc, root |-> ensured.root]
                   ELSE [kind |-> "ok", root |-> ensured.root]

\* the optimization command is started
Startup(has_cli_command, split) ==
    /\ phase = "none"
    /\ \E before \in {Root(active, bundles, cache, tree)} :
       \E r \in {start_optimization(has_cli_command, split, before)} :
          /\ active' = r.root.active
          /\ bundles' = r.root.bundles
          /\ tree' = r.root.tree
          /\ last' = [kind |-> "startup", before |-> before,
                      has_cli_command |-> has_cli_command, split |-> split,
                      raised |-> IF r.kind = "raise" THEN r.exc ELSE ""]
          /\ IF r.kind = "raise"
             THEN /\ phase' = "crashed"
                  /\ UNCHANGED <<instructions, fixed_updates, mutable_files>>
             ELSE \* BundleProgram.__init__
                  /\ phase' = "constructed"
                  /\ instructions' = [i \in DOMAIN SeedPractices |-> SeedPractices[i].body]
                  /\ fixed_updates' = [f \in FileNames |-> PracticeOf(SeedPractices, f).body]
                  /\ mutable_files' = FileNames
    /\ UNCHANGED <<cache, eval_calls, scratch, verdict, rounds>>
    /\ UNCHANGED evars

NextRoot ==
    \/ EnsureActive
    \/ Clean
    \/ \E c \in BOOLEAN, split \in SplitFiles : Startup(c, split)
    \/ \E batch_ids \in Batches : Preflight(batch_ids)

SpecRoot == InitRoot /\ [][NextRoot]_vars


(***************************************************************************)
(* Properties of the promptopt root, checked under SpecRoot.               *)
(***************************************************************************)
Ensured == last.kind = "ensure"

\* the root sources are invalid: no practices directory or no .md file in
\* it, no agents directory, or a required agent file missing
SourcesInvalid(t) ==
    \/ ~t.practices_dir
    \/ t.practices_md = {}
    \/ ~t.agents_dir
    \/ \E file_name \in RequiredAgents : file_name \notin t.agents

\* C25: with no active.json and invalid root sources, ensure_active_bundle
\* fails, writes no active.json and leaves bundles/ as it was, an existing
\* seed directory included.
C25_InvalidSourcesFailUntouched ==
    (Ensured /\ last.before.active = Absent /\ SourcesInvalid(last.before.tree))
        => /\ last.raised \in {"FileNotFoundError", "ValueError"}
           /\ active = Absent
           /\ bundles = last.before.bundles

\* a required agent file is missing and a seed directory exists
C25_Witness ==
    /\ Ensured
    /\ last.before.active = Absent
    /\ last.before.tree.practices_md # {}
    /\ last.before.tree.agents = RequiredAgents \ {"lead.md"}
    /\ last.raised = "FileNotFoundError"
    /\ Seed \in DOMAIN bundles
    /\ bundles[Seed] = OldSeedDirectory

\* the bundle id a content of active.json records, "" when it records none
RecordedId(content) ==
    IF "bundleId" \in DOMAIN content /\ content.bundleId # "" THEN content.bundleId
    ELSE IF "bundle_id" \in DOMAIN content THEN content.bundle_id
    ELSE ""

\* C26: when active.json exists, ensure_active_bundle returns the id it
\* records and changes nothing: no seed directory is made or rebuilt and
\* active.json stays as it is, so the next call returns the same id.
C26_ExistingActiveNoBootstrap ==
    (Ensured /\ last.before.active # Absent)
        => /\ active = last.before.active
           /\ bundles = last.before.bundles
           /\ RecordedId(last.before.active) # ""
                 => /\ last.raised = ""
                    /\ last.id = RecordedId(last.before.active)
                    /\ \E again \in {ensure_active_bundle(Root(active, bundles, cache, tree))} :
                          again.kind = "ok" /\ again.id = last.id

\* active.json names a bundle, the root sources are valid and there is no
\* seed directory
C26_Witness ==
    /\ Ensured
    /\ last.before.active = [bundle_id |-> "manual"]
    /\ ~SourcesInvalid(tree)
    /\ last.id = "manual"
    /\ Seed \notin DOMAIN bundles

Started == last.kind = "startup"

SplitInvalid(split) ==
    ~split.exists \/ split.run_ids = <<>> \/ Len(split.run_ids) > MAX_SPLIT_RUN_IDS

\* the optimization has ended with an error and no evaluator process was
\* launched, no candidate bundle written and no cache entry stored
AbortedBeforeEvaluation ==
    /\ phase = "crashed"
    /\ last.raised # ""
    /\ eval_calls = <<>>
    /\ launches = 0
    /\ bundles = last.before.bundles
    /\ cache = last.before.cache

\* C27 as stated: a missing command, a missing, empty or too long split, or
\* missing root sources abort the optimization before any evaluation.
C27_ConfigErrorAborts ==
    (Started /\ (\/ ~last.has_cli_command
                 \/ SplitInvalid(last.split)
                 \/ SourcesInvalid(last.before.tree)))
        => AbortedBeforeEvaluation

\* C27: a missing command, a missing, empty or too long split, or missing
\* root sources when there is no active.json, abort the optimization before
\* any evaluator process is launched, any candidate bundle is written and any
\* cache entry is stored.
C27_ConfigErrorAbortsUnlessActive ==
    (Started /\ (\/ ~last.has_cli_command
                 \/ SplitInvalid(last.split)
                 \/ (last.before.active = Absent /\ SourcesInvalid(last.before.tree))))
        => AbortedBeforeEvaluation

\* a split of eleven run ids, everything else in order
C27_Witness ==
    /\ Started
    /\ last.has_cli_command
    /\ Len(last.split.run_ids) = MAX_SPLIT_RUN_IDS + 1
    /\ ~SourcesInvalid(last.before.tree)
    /\ last.raised = "ValueError"
    /\ phase = "crashed"

Cleaned == last.kind = "clean"

\* C30: clean removes active.json, the entries of logs/, the entries of
\* bundles/ named gen..., and the entries of cache/evals; it leaves the other
\* bundles with what is in them, the files of cache/, the logs/ and
\* cache/evals directories and the root sources; a second clean changes
\* nothing.
C30_CleanRemovesOnlyTargets ==
    Cleaned
        => /\ active = Absent
           /\ tree.logs = {}
           /\ tree.logs_dir = last.before.tree.logs_dir
           /\ DOMAIN bundles = DOMAIN last.before.bundles \cap {Seed, Named("manual")}
           /\ \A id \in DOMAIN bundles : bundles[id] = last.before.bundles[id]
           /\ cache = <<>>
           /\ tree.evals_dir = (last.before.tree.evals_dir \/ last.before.cache # <<>>)
           /\ tree.cache_files = last.before.tree.cache_files
           /\ [tree EXCEPT !.logs = {}, !.evals_dir = FALSE]
                 = [last.before.tree EXCEPT !.logs = {}, !.evals_dir = FALSE]
           /\ run_clean(Root(active, bundles, cache, tree)) = Root(active, bundles, cache, tree)

\* every kind of target was there, next to entries that are kept
C30_Witness ==
    /\ Cleaned
    /\ last.before.active # Absent
    /\ last.before.tree.logs # {}
    /\ last.before.cache # <<>>
    /\ {Named("gen001"), CandidateId} \subseteq DOMAIN last.before.bundles
    /\ last.before.tree.cache_files # {}
    /\ DOMAIN bundles = {Seed, Named("manual")}
    /\ bundles[Named("manual")].nested = {"gen_nested"}


(***************************************************************************)
(* The aliases of a BundleProgram on their own (run_gepa.py l.353-390),    *)
(* for seed bundles whose practices have various logical names.  SpecAlias *)
(* uses last for the record of the resolution.                             *)
(***************************************************************************)
\* logical names a practice file may declare in its front matter
LogicalNames == {Simple, Static, K("tdd"), Upper(K("tdd"))}

\* the practices of the seed bundles: simple.md and static.md under any two
\* of the logical names
SeedsOfAliases ==
    {<<PracticeFile(SimpleMd, n1, "", <<"h">>), PracticeFile(StaticMd, n2, "", <<"s">>)>> :
        n1 \in LogicalNames, n2 \in LogicalNames}

\* the names an evaluator may attribute notes to
AttributedNames ==
    {Mk(s, c, pad) : s \in {"simple", "static", "tdd", "simple.md", "static.md", "unknown", ""},
                     c \in {"l", "u"}, pad \in BOOLEAN}

\* an evaluation whose only note is attributed to practice_name
NotedFor(practice_name) ==
    EvaluationResult(FALSE, 0, <<>>, <<>>,
                     PracticeAttribution(<<>>, <<>>, <<KV(practice_name, <<JStr(NoteX)>>)>>),
                     JObj(<<>>))

InitAlias == InitStore

\* a program is built on the practices and resolves the name a note is
\* attributed to
Resolve(practices, practice_name) ==
    /\ last.kind = "none"
    /\ last' = [kind |-> "resolve", practices |-> practices, practice_name |-> practice_name,
                resolved |-> resolve_practice_file_of(practices, practice_name),
                targeted |-> extract_targeted_files_of(practices, NotedFor(practice_name))]
    /\ UNCHANGED <<instructions, fixed_updates, mutable_files, cache, eval_calls, bundles,
                   scratch, active, verdict, rounds, phase>>
    /\ UNCHANGED <<evars, wvars>>

NextAlias == \E practices \in SeedsOfAliases, practice_name \in AttributedNames :
                Resolve(practices, practice_name)

SpecAlias == InitAlias /\ [][NextAlias]_vars

(***************************************************************************)
(* Properties of the aliases, checked under SpecAlias.                     *)
(***************************************************************************)
Resolved == last.kind = "resolve"

NamesOf(p) == {p.name, p.file_name, Stem(p.file_name)}

\* x is a in some letter case
InSomeCase(x, a) == Lower(x) = Lower(a)

\* x and a are equal up to letter case and white space around them
SameAlias(x, a) == Lower(Strip(x)) = Lower(Strip(a))

\* the name resolved last names practice i
NamesPractice(i) == \E a \in NamesOf(last.practices[i]) : InSomeCase(last.practice_name, a)

\* a practice before practice i has a name that practice i has too
Shadowed(i) ==
    \E j \in 1..(i - 1) :
        \E a \in NamesOf(last.practices[i]), b \in NamesOf(last.practices[j]) :
            InSomeCase(last.practice_name, a) /\ SameAlias(a, b)

\* the name resolved last is no name of any practice
NamesNoPractice ==
    \A i \in DOMAIN last.practices :
        \A a \in NamesOf(last.practices[i]) : ~SameAlias(last.practice_name, a)

ResolvesTo(i) ==
    last.resolved.found /\ last.resolved.file = last.practices[i].file_name

\* C29 as stated: the logical name, file name and stem of every practice of
\* the seed, in any letter case, resolve to the practice's file; a name that is
\* none of them resolves to nothing and targets no file.
C29_EveryNameResolvesToItsFile ==
    Resolved => /\ \A i \in DOMAIN last.practices : NamesPractice(i) => ResolvesTo(i)
                /\ NamesNoPractice => (~last.resolved.found /\ last.targeted = {})

\* C29: the logical name, file name and stem of every practice of the seed,
\* in any letter case, resolve to the practice's file unless a practice
\* before it in the seed has the same name; a name that is none of them
\* resolves to nothing and targets no file.
C29_FirstOwnerOfNameResolves ==
    Resolved => /\ \A i \in DOMAIN last.practices :
                      (NamesPractice(i) /\ ~Shadowed(i)) => ResolvesTo(i)
                /\ NamesNoPractice => (~last.resolved.found /\ last.targeted = {})

\* the logical name of the second practice, in upper case, with a first
\* practice of another name
C29_Witness ==
    /\ Resolved
    /\ last.practices[1].name = Simple
    /\ last.practices[2].name = K("tdd")
    /\ last.practice_name = Upper(K("tdd"))
    /\ last.resolved.found
    /\ last.resolved.file = StaticMd
    /\ last.targeted = {StaticMd}


(***************************************************************************)
(* The draft of a frozen practice (Spec).                                  *)
(***************************************************************************)
\* a forward step after which the practice is mutable, having been frozen
BecomesMutable(file_name) == file_name \notin mutable_files /\ file_name \in mutable_files'

\* C31: an edit made to the draft of a practice while it is frozen is
\* discarded: when a later batch targets the practice and it becomes mutable
\* again, the body get_practice_updates returns for it is its last accepted
\* value in fixed_updates, not the draft edited while it was frozen.
C31_FrozenDraftDiscarded ==
    [][\A f \in FileNames :
          BecomesMutable(f) => EffectiveBody(f)' = fixed_updates'[f]]_vars


(***************************************************************************)
(* The attempts of one evaluate_bundle call and their child processes      *)
(* (SpecEval).                                                             *)
(***************************************************************************)
\* the child of the current attempt has not been reaped
ChildAlive == proc \in {"running", "exited"}

\* a step that ends an attempt
AttemptEnds == Len(history') = Len(history) + 1

\* how a step that ends an attempt in the given state finds and leaves the child
EndsAs(state) ==
    CASE state = "Succeeded" -> proc = "exited" /\ exitcode = 0 /\ proc' = "reaped"
      [] state = "NonZeroExit" -> proc = "exited" /\ exitcode # 0 /\ proc' = "reaped"
      [] state = "TimedOut" ->
            proc = "running" /\ elapsed >= timeout_seconds /\ proc' = "reaped"
      [] OTHER -> FALSE

\* C32: every attempt ends in exactly one of Succeeded (exit 0), NonZeroExit
\* and TimedOut; it ends TimedOut only when the process is still running
\* once the elapsed time has reached the timeout, and the process is then
\* killed and reaped; a process is launched only when no child is alive, and
\* none is alive when evaluate_bundle has ended.
C32_AttemptLifecycle ==
    /\ [](Len(history) = launches - (IF pc = "poll" THEN 1 ELSE 0))
    /\ [](pc = "poll" <=> ChildAlive)
    /\ [](Finished => ~ChildAlive)
    /\ [][/\ launches' # launches => (~ChildAlive /\ proc' = "running")
          /\ AttemptEnds => EndsAs(history'[Len(history')].state)]_vars

C32_Witness ==
    /\ Finished
    /\ launches = 2
    /\ history[1].state = "TimedOut"
    /\ history[2].state \in {"Succeeded", "NonZeroExit"}
    /\ proc = "reaped"


(***************************************************************************)
(* Termination of evaluate_bundle.  The steps of the call itself are taken *)
(* whenever they stay enabled: the interpreter keeps running, and          *)
(* time.sleep returns with the monotonic clock advanced.  Nothing is       *)
(* assumed of the external process: it may never write and never exit.     *)
(***************************************************************************)
\* the steps evaluate_bundle takes; the others are the external process's
CallStep ==
    \/ Popen
    \/ PollReturn
    \/ PollTimeout
    \/ \E d \in SleepSteps : PollSleep(d)
    \/ CheckRetry
    \/ ReadArtifact

SpecEvalLive == InitEval /\ [][NextEval]_vars /\ WF_vars(CallStep)

\* C33: evaluate_bundle always terminates: whatever the external process
\* does, the call eventually returns a result, after a bounded number of
\* launches.
C33_EventuallyReturns == <>(pc = "done" /\ outcome.kind = "return") /\ [](launches <= 3)


(***************************************************************************)
(* The heartbeat of a running attempt (SpecEval).                          *)
(***************************************************************************)
\* a step that prints an eval-running status line
HeartbeatEmitted == heartbeats' = heartbeats + 1

\* what a heartbeat leaves alone: where the call is, the attempt and its
\* process, the launch count, the timeout, the artifact and the result
HeartbeatFrame ==
    /\ UNCHANGED <<pc, site, launches, proc, exitcode, returncode, artifact, written_by,
                   timeout_seconds, history, outcome>>
    /\ UNCHANGED <<pvars, wvars>>

\* C34: a heartbeat is emitted only while the process has not completed and
\* the timeout has not elapsed, and emitting it changes nothing but the
\* next-heartbeat deadline: the attempt, the launch count, the timeout and
\* the result are left alone, and the clock of the attempt advances by the
\* sleep as it does without a heartbeat.
C34_HeartbeatOnlyMovesDeadline ==
    [][HeartbeatEmitted =>
          /\ proc = "running"
          /\ elapsed < timeout_seconds
          /\ elapsed >= next_heartbeat
          /\ next_heartbeat' = elapsed + HEARTBEAT_SECONDS
          /\ HeartbeatFrame
          /\ \E d \in SleepSteps : elapsed' = elapsed + d]_vars

C34_Witness ==
    /\ heartbeats >= 1
    /\ pc = "done"
    /\ launches = 1
    /\ outcome = Returned("L152", Parsed(A_full).val)


(***************************************************************************)
(* The retry after a timeout (SpecEval).                                   *)
(***************************************************************************)
\* the first attempt timed out and its retry exited with code 0
TimedOutThenSucceeded ==
    /\ Len(history) >= 2
    /\ history[1].state = "TimedOut"
    /\ history[2].state = "Succeeded"

\* C35: when the first attempt times out and the retry exits with code 0
\* before the timeout, having written an evaluator.json that parses, exactly
\* 2 processes are launched and the call returns the result parsed from that
\* file (whatever its pass field says), not the degraded timeout result.
C35_RetryResultReturned ==
    (TimedOutThenSucceeded /\ written_by = 2 /\ Parses(artifact)) =>
        /\ launches = 2
        /\ pc \in {"line141", "line150", "done"}
        /\ Finished => outcome = Returned("L152", Parsed(artifact).val)

C35_Witness ==
    /\ TimedOutThenSucceeded
    /\ written_by = 2
    /\ artifact = A_failed
    /\ pc = "done"
    /\ launches = 2
    /\ ~outcome.val.passed
    /\ outcome.val.raw = A_failed


(***************************************************************************)
(* What set and get leave alone (SpecCache).                               *)
(***************************************************************************)
\* the step is a set or a get of the cache, on the key recorded in last'
CacheOperation == last'.kind \in {"set", "get"}

\* what get returns for a key before and after the step
GetBefore(k) == cache_get(cache, k[1], k[2])
GetAfter(k) == cache_get(cache', k[1], k[2])

\* C36: set(run, hash, r) replaces only the entry of that exact key: get
\* for every other key returns what it returned before; no set and no get
\* removes an entry, and after a set, get for its key returns a result.
C36_SetReplacesOnlyItsKey ==
    [][CacheOperation =>
          /\ DOMAIN cache \subseteq DOMAIN cache'
          /\ \A k \in CacheKeys :
                k # <<last'.run_id, last'.bundle_hash>> => GetAfter(k) = GetBefore(k)
          /\ last'.kind = "get" => cache' = cache
          /\ last'.kind = "set" =>
                LET got == GetAfter(<<last'.run_id, last'.bundle_hash>>) IN
                got.kind = "ok" /\ got.val # JNull
                    /\ SameFields(got.val, last'.evaluation)]_vars

\* a set has replaced the entry of its key while another key of the same run
\* and another key of the same bundle hold entries
C36_Witness ==
    /\ last.kind = "set"
    /\ DOMAIN cache = CacheKeys
    /\ \E k \in CacheKeys :
          /\ k # <<last.run_id, last.bundle_hash>>
          /\ cache[k] # cache[<<last.run_id, last.bundle_hash>>]
          /\ cache_get(cache, k[1], k[2]).kind = "ok"


(***************************************************************************)
(* Rebuilding the seed bundle (bundle_store.py).  Between two calls of     *)
(* ensure_active_bundle, active.json may be deleted and the root sources   *)
(* edited from outside: files removed, added and rewritten.                *)
(***************************************************************************)
\* the practices and agent prompts the edited sources may hold, and the
\* files that may have been rewritten
EditedPractices == {{"simple.md", "static.md"}, {"simple.md", "new.md"}}
EditedAgents == {RequiredAgents, RequiredAgents \ {"lead.md"}}
Rewritten == {{}, {"simple.md", "lead.md"}}

\* active.json is deleted
DeleteActiveJson ==
    /\ phase = "none"
    /\ active # Absent
    /\ active' = Absent
    /\ last' = [kind |-> "unlink"]
    /\ UNCHANGED <<instructions, fixed_updates, mutable_files, cache, eval_calls, bundles,
                   scratch, verdict, rounds, phase>>
    /\ UNCHANGED <<evars, wvars>>

\* the files of .bendover/practices and .bendover/agents are edited
EditSources(practices_md, agents, rewritten) ==
    /\ phase = "none"
    /\ tree.practices_dir
    /\ tree.agents_dir
    /\ tree' = [tree EXCEPT !.practices_md = practices_md, !.agents = agents,
                            !.revised = rewritten \cap (practices_md \cup agents)]
    /\ tree' # tree
    /\ last' = [kind |-> "edit"]
    /\ UNCHANGED <<instructions, fixed_updates, mutable_files, cache, eval_calls, bundles,
                   scratch, active, verdict, rounds, phase>>
    /\ UNCHANGED evars

NextRebuild ==
    \/ EnsureActive
    \/ DeleteActiveJson
    \/ \E p \in EditedPractices, a \in EditedAgents, r \in Rewritten : EditSources(p, a, r)

SpecRebuild == InitRoot /\ [][NextRebuild]_vars

\* the last call of ensure_active_bundle found no active.json, and root
\* sources that are valid
RebuiltSeed ==
    /\ last.kind = "ensure"
    /\ last.before.active = Absent
    /\ validate_root_sources(last.before.tree).kind = "ok"

\* the files of the current root sources
SourceFiles == tree.practices_md \cup tree.agents

\* C37: when ensure_active_bundle finds no active.json (deleted after a
\* bootstrap, the root sources edited since), it rebuilds bundles/<seed> as a
\* copy of the current sources only: the seed holds the files of the sources
\* and no other, every file in the revision the sources hold, and
\* active.json names the seed again.
C37_RebuildCopiesCurrentSources ==
    RebuiltSeed =>
        /\ last.raised = ""
        /\ last.id = "seed"
        /\ active = ActiveSeed
        /\ Seed \in DOMAIN bundles
        /\ bundles[Seed].practices = tree.practices_md
        /\ bundles[Seed].agents = tree.agents
        /\ bundles[Seed].revised = tree.revised \cap SourceFiles
        /\ \A id \in DOMAIN last.before.bundles \ {Seed} :
              id \in DOMAIN bundles /\ bundles[id] = last.before.bundles[id]

\* the seed of an earlier bootstrap held static.md and the first revision of
\* lead.md; the sources have since lost static.md, gained new.md and had
\* lead.md rewritten
C37_Witness ==
    /\ RebuiltSeed
    /\ Seed \in DOMAIN last.before.bundles
    /\ \E t \in Trees : last.before.bundles[Seed] = SeedDirectory(t)
    /\ "static.md" \in last.before.bundles[Seed].practices
    /\ "lead.md" \notin last.before.bundles[Seed].revised
    /\ bundles[Seed].practices = {"simple.md", "new.md"}
    /\ "lead.md" \in bundles[Seed].revised


(***************************************************************************)
(* An evaluator.json left in the output directory by an earlier call       *)
(* (SpecEval: InitEval lets the file be there before the first launch).    *)
(***************************************************************************)
\* no process of this call has written evaluator.json
NotWrittenByThisCall == written_by = 0

\* the call returned a result parsed from evaluator.json
ReturnedParsed == pc = "done" /\ outcome.kind = "return" /\ outcome.line = "L152"

\* the call is past the retry check of l.141 after a first attempt that
\* exited non-zero
PastRetryCheck ==
    /\ pc \in {"line145", "line150", "done", "raised"} \/ launches >= 2
    /\ Len(history) >= 1
    /\ history[1].state = "NonZeroExit"

\* C38: the result evaluate_bundle returns is parsed from an evaluator.json
\* written by a process of that same call: a file that was in the output
\* directory before the first launch is never returned as the result and
\* never suppresses the retry after a non-zero exit.
C38_ResultFromThisCall ==
    /\ ReturnedParsed => ~NotWrittenByThisCall
    /\ (PastRetryCheck /\ NotWrittenByThisCall) => (launches >= 2 \/ pc = "line145")



(***************************************************************************)
(* active.json over an optimisation run (Spec): it is written once, by the *)
(* last statement of the run.                                              *)
(***************************************************************************)
\* the id under which the best bundle of the final scoring is written
BestBundleId(call) == BundleId("gepa", call.bundle_hash)

\* the final scoring returned a score for every run
EveryRunScored(call) ==
    /\ call.kind = "final"
    /\ call.raised = ""
    /\ call.batch = RunIds
    /\ Len(call.evals) = Len(RunIds)

\* the run ended before update_active_json was reached
RunFailed == phase \in {"aborted", "crashed"}

\* C39: active.json is replaced to name the best bundle only after that
\* bundle was written to disk and the final score of every run was obtained;
\* a run that fails earlier (preflight abort, search failure, an exception
\* during the final evaluation) leaves active.json as it was, and the bundle
\* directory active.json is made to name exists.
C39_ActiveJsonUpdatedLast ==
    /\ [][active' # active
             => /\ EveryRunScored(last')
                /\ phase' = "done"
                /\ active'.bundleId = BestBundleId(last')
                /\ active'.bundleId \in DOMAIN bundles'
                /\ "trainRunIds" \in DOMAIN bundles'[active'.bundleId].meta
                /\ active'.score = last'.prediction.score]_vars
    /\ [](RunFailed => active = [bundleId |-> "seed"])
    /\ [](phase = "done" => active.bundleId \in DOMAIN bundles)

\* a final scoring that replaced active.json
C39_Witness ==
    /\ phase = "done"
    /\ EveryRunScored(last)
    /\ active.bundleId = BestBundleId(last)
    /\ active.bundleId \in DOMAIN bundles

\* the final evaluation raised after the best bundle was written
FinalEvaluationRaised ==
    /\ phase = "crashed"
    /\ last.kind = "final"
    /\ last.raised # ""
    /\ BestBundleWritten



(***************************************************************************)
(* The notes behind a targeted practice (Spec).                            *)
(***************************************************************************)
\* some run of the last batch has a practice-specific note for the file
HasPracticeNote(call, file_name) == NotesByFile(call.evals, file_name) # <<>>

\* the file got a feedback entry in the last prediction
HasFeedbackEntry(call, file_name) ==
    \E i \in DOMAIN SeedPractices :
        /\ SeedPractices[i].file_name = file_name
        /\ PredNames[i] \in DOMAIN call.prediction.feedback_by_pred

\* C40: every practice that a batch targets (it enters mutable_files and
\* gets a feedback entry) has at least one practice-specific note from some
\* run of that batch; a notes_by_practice key with an empty list of notes
\* does not make its practice targeted or mutable.
C40_TargetedHasNote ==
    (last.kind = "forward" /\ last.raised = "" /\ last.batch # <<>>)
        => \A f \in FileNames :
               (f \in last.targeted \/ f \in mutable_files \/ HasFeedbackEntry(last, f))
                   => HasPracticeNote(last, f)

====
